---- MODULE Spec2Model ----
(***************************************************************************)
(* Learned Word Ledger and Contribution Trigger of lingua.xaostech.io.     *)
(*                                                                         *)
(* The ledger (src/src/lib/learnedWords.ts) keeps its whole state in one   *)
(* key-value namespace: `word:{w}` records, `queue:pending`, `meta:stats`  *)
(* and `meta:config`.  Every kv.get / kv.put is an await, so a request is  *)
(* modelled as a task that performs ONE key-value operation per step       *)
(* (together with the synchronous code that follows it up to the next      *)
(* await); tasks of concurrent requests interleave between steps.          *)
(***************************************************************************)
EXTENDS Integers, Sequences, FiniteSets, TLC

(***************************************************************************)
(* Bounds of the model                                                     *)
(***************************************************************************)
\* task slots: concurrently running requests / bulk items
NumTasks == 3
\* top-level requests started in one behaviour
MaxCalls == 2
\* a call on a word is started only while its seenCount is below this
MaxSeen == 4
\* distinct words stored by the sequential scenario
NumSeqWords == 11
\* sightings of the word of the context scenario
MaxCtxSeen == 7

Tasks == 1 .. NumTasks

(***************************************************************************)
(* Words are character sequences; normalisation is toLowerCase().trim()    *)
(***************************************************************************)
LowerOf(c) ==
    CASE c = "A" -> "a"
      [] c = "B" -> "b"
      [] c = "C" -> "c"
      [] c = "D" -> "d"
      [] c = "G" -> "g"
      [] c = "Z" -> "z"
      [] OTHER -> c

ToLowerCase(s) == [i \in 1 .. Len(s) |-> LowerOf(s[i])]

IsSpace(c) == c = " "

RECURSIVE TrimStart(_)
TrimStart(s) ==
    IF s # <<>> /\ IsSpace(Head(s)) THEN TrimStart(Tail(s)) ELSE s

RECURSIVE TrimEnd(_)
TrimEnd(s) ==
    IF s # <<>> /\ IsSpace(s[Len(s)]) THEN TrimEnd(SubSeq(s, 1, Len(s) - 1)) ELSE s

Trim(s) == TrimEnd(TrimStart(s))

\* word.toLowerCase().trim()
Normalize(word) == Trim(ToLowerCase(word))

\* raw words offered by concurrent requests: two spellings of "ab", and "cd"
ConcRawWords == { <<"a", "b">>, <<" ", "A", "B">>, <<"c", "d">> }

\* the n-th word of the sequential scenario ("wa", "wb", ...)
Alphabet == <<"a", "b", "c", "d", "e", "f", "g", "h", "i", "j", "k", "l", "m", "n">>

SeqWord(n) == <<"w", Alphabet[n]>>

SeqRawWords == { SeqWord(n) : n \in 1 .. NumSeqWords }

\* a word of 51 characters
LongWord == [i \in 1 .. 51 |-> "y"]

RawWords == ConcRawWords \cup SeqRawWords \cup {LongWord}

\* the `word:{w}` keys the model can address
WordKeys == { Normalize(r) : r \in RawWords }

(***************************************************************************)
(* Confidence is a rational in [0,1]; it is held exactly as an integer     *)
(* number of units, ONE units making 1.0.  Each merge halves once, and a   *)
(* record is merged fewer than MaxSeen + MaxCalls times, so every halving  *)
(* is exact: Half fails loudly if it ever were not.                        *)
(***************************************************************************)
ConfUnit == 2 ^ (MaxSeen + MaxCalls)

ONE == 10 * ConfUnit

\* d tenths, e.g. Tenths(7) is 0.7
Tenths(d) == d * ConfUnit

Half(x) == CHOOSE h \in 0 .. x : 2 * h = x

Min(a, b) == IF a <= b THEN a ELSE b

\* options.confidence left out
NoConf == -1

\* JavaScript `value || fallback` on a number: undefined and 0 are falsy
OrDefault(value, fallback) ==
    IF value = NoConf \/ value = 0 THEN fallback ELSE value

\* options.context left out ("" is falsy as well)
NoContext == ""

\* new Date().toISOString(): the model keeps that a time was taken, not which
Now == "now"

\* a null timestamp
NoTime == ""

\* a null result
Null == "<null>"

\* texts that an exception (err.message) or the body of an upstream error
\* response may carry; NoDetail is a failure whose text the model does not keep
ErrorTexts == {"connect ETIMEDOUT 10.0.0.7:443", "Bad credentials: token ghp_live"}

NoDetail == ""

\* the awaited call rejected, with a text or without
Threw(outcome) == outcome = "throws" \/ outcome \in ErrorTexts

\* err.message: the text that was thrown; where the model keeps no text, the
\* name of the binding that threw stands for it
ErrMessage(outcome, origin) == IF outcome \in ErrorTexts THEN outcome ELSE origin

(***************************************************************************)
(* LearnedWord records                                                     *)
(***************************************************************************)
Langs == {"es", "fr"}

\* a language key the translations map does not have
Absent == "<absent>"

NoTranslations == [l \in Langs |-> Absent]

\* the overlay the wrong way round: the stored value wins
MergeTranslationsOlderWins(older, newer) ==
    [l \in Langs |-> IF older[l] # Absent THEN older[l] ELSE newer[l]]

\* { ...older, ...newer }: the newer value wins per language key
MergeTranslations(older, newer) ==
    [l \in Langs |-> IF newer[l] # Absent THEN newer[l] ELSE older[l]]

NoRec == [word |-> <<>>, sourceLanguage |-> "", translations |-> NoTranslations,
          detectedPos |-> "", firstSeen |-> NoTime, seenCount |-> 0, lastSeen |-> NoTime,
          confidence |-> 0, contexts |-> <<>>, source |-> ""]

\* a window that keeps one prior context too many
LastFive(cs) == IF Len(cs) <= 5 THEN cs ELSE SubSeq(cs, Len(cs) - 4, Len(cs))

\* (existing.contexts || []).slice(-4)
LastFour(cs) == IF Len(cs) <= 4 THEN cs ELSE SubSeq(cs, Len(cs) - 3, Len(cs))

\* a repeat sighting that adds the confidences instead of averaging them
UpdatedWordSumming(existing, translations, confidence, context, now) ==
    [existing EXCEPT
        !.translations = MergeTranslations(existing.translations, translations),
        !.seenCount = existing.seenCount + 1,
        !.lastSeen = now,
        !.confidence = existing.confidence + OrDefault(confidence, Tenths(7)),
        !.contexts = IF context # NoContext
                     THEN Append(LastFour(existing.contexts), context)
                     ELSE existing.contexts]

\* the record written on a repeat sighting (storeLearnedWord, existing branch)
UpdatedWord(existing, translations, confidence, context, now) ==
    [existing EXCEPT
        !.translations = MergeTranslations(existing.translations, translations),
        !.seenCount = existing.seenCount + 1,
        !.lastSeen = now,
        !.confidence = Min(Half(existing.confidence + OrDefault(confidence, Tenths(7))), ONE),
        !.contexts = IF context # NoContext
                     THEN Append(LastFour(existing.contexts), context)
                     ELSE existing.contexts]

\* the record written on a first sighting (storeLearnedWord, new branch)
NewWord(key, translations, confidence, context, now) ==
    [word |-> key, sourceLanguage |-> "en", translations |-> translations,
     detectedPos |-> "", firstSeen |-> now, seenCount |-> 1, lastSeen |-> now,
     confidence |-> OrDefault(confidence, Tenths(7)),
     contexts |-> IF context # NoContext THEN <<context>> ELSE <<>>,
     source |-> "ai"]

(***************************************************************************)
(* meta:stats and meta:config                                              *)
(***************************************************************************)
\* the value getStats returns when `meta:stats` is missing
DefaultStats ==
    [totalLearned |-> 0, pendingCount |-> 0, lastSyncToRepo |-> NoTime,
     lastPRNumber |-> 0, isProcessing |-> FALSE]

DEFAULT_CONFIG ==
    [prThreshold |-> 10, maxBulkSize |-> 1000, maxWordsPerPR |-> 500,
     autoTrigger |-> TRUE, minConfidence |-> Tenths(7)]

\* { ...a, ...b } on records: the fields b has overwrite those of a
Overlay(a, b) ==
    [f \in DOMAIN a |-> IF f \in DOMAIN b THEN b[f] ELSE a[f]]

\* a key holds <<>> when missing and <<value>> when present
GetStats(store) == IF store.stats = <<>> THEN DefaultStats ELSE store.stats[1]

GetConfig(store) ==
    IF store.config = <<>> THEN DEFAULT_CONFIG ELSE Overlay(DEFAULT_CONFIG, store.config[1])

GetLearnedWord(store, key) == store.words[key]

\* ShouldTriggerPR with the autoTrigger switch forgotten
ShouldTriggerPRNoSwitch(config, stats) ==
    /\ stats.pendingCount >= config.prThreshold
    /\ ~stats.isProcessing

\* ShouldTriggerPR with the isProcessing guard forgotten
ShouldTriggerPRNoGuard(config, stats) ==
    /\ config.autoTrigger
    /\ stats.pendingCount >= config.prThreshold

\* ShouldTriggerPR with `>` written for `>=`
ShouldTriggerPRStrict(config, stats) ==
    /\ config.autoTrigger
    /\ stats.pendingCount > config.prThreshold
    /\ ~stats.isProcessing

\* config.autoTrigger && stats.pendingCount >= config.prThreshold && !stats.isProcessing
ShouldTriggerPR(config, stats) ==
    /\ config.autoTrigger
    /\ stats.pendingCount >= config.prThreshold
    /\ ~stats.isProcessing

\* addToPendingQueue with the membership test forgotten
NeverIncludes(queue, key) == FALSE

\* queue.includes(word)
Includes(queue, key) == \E i \in 1 .. Len(queue) : queue[i] = key

(***************************************************************************)
(* State                                                                   *)
(***************************************************************************)
VARIABLES
    kv,       \* the LEARNED_WORDS_KV namespace: words, queue, stats, config
    task,     \* per task slot: the running operation, its position and locals
    calls,    \* top-level requests started so far
    cleared,  \* whether clearPendingQueue has ever written the queue
    cache,    \* the CACHE_KV namespace: cache key -> entry
    version   \* CACHE_VERSION of the build that is deployed

vars == <<kv, task, calls, cleared, cache, version>>

\* const CACHE_VERSION = 'v2': the token of the build deployed first
CACHE_VERSION == "v2"

\* a CACHE_KV namespace without entries
EmptyCache == <<>>

EmptyStore ==
    [words |-> [k \in WordKeys |-> NoRec], queue |-> <<>>, stats |-> <<>>, config |-> <<>>]

NoRet == [stored |-> FALSE, shouldTriggerPR |-> FALSE, pendingCount |-> 0]

\* CreatePRResult; error is the fixed part of the message (for a failed request,
\* the step that failed), detail the text the message carries after it
NoResult == [success |-> FALSE, prNumber |-> 0, error |-> "", detail |-> NoDetail]

NoBulk ==
    [items |-> <<>>, skipDuplicates |-> FALSE, tier |-> "medium", triggerPRThreshold |-> 0,
     success |-> FALSE, added |-> 0, updated |-> 0, skipped |-> 0, errors |-> <<>>,
     prThreshold |-> 0, running |-> 0, size |-> 0]

\* the locals of a /translate request and what it has done so far
NoReq ==
    [text |-> <<>>, from |-> "", to |-> "", bypass |-> FALSE, cacheKey |-> <<>>,
     words |-> <<>>, branch |-> "", result |-> <<>>, cacheOps |-> <<>>, ai |-> <<>>,
     cf |-> <<>>, item |-> 0, tiers |-> <<>>, status |-> 0, response |-> <<>>]

\* what a /translate/batch request keeps of its items: their results by
\* position, and how many are still running
NoBatch == [results |-> <<>>, running |-> 0]

IdleTask ==
    [op |-> "idle", pc |-> "idle", key |-> <<>>, trans |-> NoTranslations,
     conf |-> NoConf, ctx |-> NoContext, existing |-> NoRec, now |-> NoTime,
     queue |-> <<>>, current |-> DefaultStats, updates |-> <<>>, cont |-> "",
     stats |-> DefaultStats, config |-> DEFAULT_CONFIG,
     gotStats |-> FALSE, gotConfig |-> FALSE, ret |-> NoRet,
     parent |-> 0, bulk |-> NoBulk,
     words |-> <<>>, api |-> <<>>, result |-> NoResult, marked |-> FALSE,
     configured |-> FALSE, lang |-> "", answer |-> Null, raw |-> <<>>,
     patch |-> <<>>, req |-> NoReq, batch |-> NoBatch]

(***************************************************************************)
(* storeLearnedWord                                                        *)
(***************************************************************************)
\* the call starts: getLearnedWord reads `word:{key}`, then `now` is taken
StoreLearnedWord(t, word, translations, confidence, context) ==
    LET key == Normalize(word)
        existing == GetLearnedWord(kv, key)
    IN  /\ task[t].op = "idle"
        /\ task' = [task EXCEPT ![t] =
                [IdleTask EXCEPT
                    !.op = "store", !.key = key, !.trans = translations,
                    !.conf = confidence, !.ctx = context,
                    !.existing = existing, !.now = Now,
                    !.pc = IF existing # NoRec THEN "put_updated" ELSE "put_new"]]
        /\ UNCHANGED <<kv, cleared, cache, version>>

\* existing branch: kv.put(key, updated)
StorePutUpdated(t) ==
    /\ task[t].op = "store" /\ task[t].pc = "put_updated"
    /\ kv' = [kv EXCEPT !.words[task[t].key] =
                UpdatedWord(task[t].existing, task[t].trans, task[t].conf,
                            task[t].ctx, task[t].now)]
    /\ task' = [task EXCEPT ![t].pc = "merge_stats", ![t].trans = NoTranslations,
                             ![t].conf = NoConf, ![t].ctx = NoContext]
    /\ UNCHANGED <<calls, cleared, cache, version>>

\* existing branch: getStats, then return with shouldTriggerPR false
StoreMergeReturn(t) ==
    /\ task[t].op = "store" /\ task[t].pc = "merge_stats"
    /\ task' = [task EXCEPT
                    ![t].stats = GetStats(kv),
                    ![t].ret = [stored |-> TRUE, shouldTriggerPR |-> FALSE,
                                pendingCount |-> GetStats(kv).pendingCount],
                    ![t].pc = "done"]
    /\ UNCHANGED <<kv, calls, cleared, cache, version>>

\* new branch: kv.put(key, newWord); addToPendingQueue is entered
StorePutNew(t) ==
    /\ task[t].op = "store" /\ task[t].pc = "put_new"
    /\ kv' = [kv EXCEPT !.words[task[t].key] =
                NewWord(task[t].key, task[t].trans, task[t].conf, task[t].ctx, task[t].now)]
    /\ task' = [task EXCEPT ![t].pc = "queue_get", ![t].trans = NoTranslations,
                             ![t].conf = NoConf, ![t].ctx = NoContext]
    /\ UNCHANGED <<calls, cleared, cache, version>>

\* the value storeLearnedWord returns on the new branch
StoreResult(config, stats) ==
    [stored |-> TRUE, shouldTriggerPR |-> ShouldTriggerPR(config, stats),
     pendingCount |-> stats.pendingCount]

\* new branch: Promise.all([getStats, getConfig]), the getStats read
StoreGetStats(t) ==
    /\ task[t].op = "store" /\ task[t].pc = "final" /\ ~task[t].gotStats
    /\ LET stats == GetStats(kv)
       IN  task' = [task EXCEPT
                ![t].stats = stats, ![t].gotStats = TRUE,
                ![t].ret = IF task[t].gotConfig
                           THEN StoreResult(task[t].config, stats) ELSE @,
                ![t].pc = IF task[t].gotConfig THEN "done" ELSE @]
    /\ UNCHANGED <<kv, calls, cleared, cache, version>>

\* new branch: Promise.all([getStats, getConfig]), the getConfig read
StoreGetConfig(t) ==
    /\ task[t].op = "store" /\ task[t].pc = "final" /\ ~task[t].gotConfig
    /\ LET config == GetConfig(kv)
       IN  task' = [task EXCEPT
                ![t].config = config, ![t].gotConfig = TRUE,
                ![t].ret = IF task[t].gotStats
                           THEN StoreResult(config, task[t].stats) ELSE @,
                ![t].pc = IF task[t].gotStats THEN "done" ELSE @]
    /\ UNCHANGED <<kv, calls, cleared, cache, version>>

(***************************************************************************)
(* bulkUploadWords: the sub-batches                                        *)
(***************************************************************************)
BatchSize == 50

\* the tier table with the cap of `small` one too high
TierMaxLoose(tier) ==
    CASE tier = "small" -> 101
      [] tier = "medium" -> 500
      [] tier = "large" -> 1000
      [] tier = "xlarge" -> 5000

TierMax(tier) ==
    CASE tier = "small" -> 100
      [] tier = "medium" -> 500
      [] tier = "large" -> 1000
      [] tier = "xlarge" -> 5000

\* a validation that lets words of 51 characters pass
InvalidWordLoose(key) == key = <<>> \/ Len(key) < 2 \/ Len(key) > 51

\* !normalizedWord || normalizedWord.length < 2 || normalizedWord.length > 50
InvalidWord(key) == key = <<>> \/ Len(key) < 2 \/ Len(key) > 50

FirstBatch(items) == SubSeq(items, 1, Min(BatchSize, Len(items)))

RestAfterBatch(items) == SubSeq(items, Min(BatchSize, Len(items)) + 1, Len(items))

ValidCount(items) ==
    Cardinality({i \in 1 .. Len(items) : ~InvalidWord(Normalize(items[i].word))})

IdleSlots(tasks) == {u \in Tasks : tasks[u].op = "idle"}

LowestIdle(tasks) == CHOOSE u \in IdleSlots(tasks) : \A v \in IdleSlots(tasks) : u <= v

\* batch.map(async item => ...): every item runs up to its first await; an
\* invalid word is skipped at once, a valid one issues getLearnedWord
RECURSIVE SpawnItems(_, _, _)
SpawnItems(tasks, p, items) ==
    IF items = <<>> THEN tasks
    ELSE LET item == Head(items)
             key == Normalize(item.word)
         IN  IF InvalidWord(key)
             THEN SpawnItems([tasks EXCEPT ![p].bulk.skipped = @ + 1], p, Tail(items))
             ELSE LET u == LowestIdle(tasks)
                  IN  SpawnItems(
                          [tasks EXCEPT
                              ![u] = [IdleTask EXCEPT
                                        !.op = "item", !.pc = "item_get", !.key = key,
                                        !.raw = item.word,
                                        !.trans = item.translations,
                                        !.conf = item.confidence,
                                        !.now = tasks[p].now, !.parent = p],
                              ![p].bulk.running = @ + 1],
                          p, Tail(items))

\* the for loop over sub-batches: start the next one (and the one after it, if
\* every item of it was skipped at once), or go on to getStats
RECURSIVE NextBatch(_, _)
NextBatch(tasks, p) ==
    LET items == tasks[p].bulk.items
        spawned == SpawnItems([tasks EXCEPT ![p].bulk.items = RestAfterBatch(items),
                                            ![p].pc = "bulk_wait"],
                              p, FirstBatch(items))
    IN  IF items = <<>> THEN [tasks EXCEPT ![p].pc = "bulk_stats"]
        ELSE IF spawned[p].bulk.running # 0 THEN spawned
             ELSE NextBatch(spawned, p)

(***************************************************************************)
(* addToPendingQueue and updateStats (shared by every operation)           *)
(***************************************************************************)
\* an item of a bulk upload has finished: its counter is bumped, its slot is
\* freed, and once the whole sub-batch has finished Promise.all resolves and
\* the parent's loop goes on
ItemDone(tasks, u, counter) ==
    LET p == tasks[u].parent
        b == tasks[p].bulk
        b2 == [b EXCEPT
                !.added = IF counter = "added" THEN @ + 1 ELSE @,
                !.updated = IF counter = "updated" THEN @ + 1 ELSE @,
                !.skipped = IF counter = "skipped" THEN @ + 1 ELSE @,
                !.running = @ - 1]
        freed == [tasks EXCEPT ![u] = IdleTask, ![p].bulk = b2]
    IN  IF b2.running # 0 THEN freed ELSE NextBatch(freed, p)

\* what follows `await addToPendingQueue(...)` in the caller
AfterAdd(tasks, t) ==
    IF tasks[t].op = "store"
    THEN [tasks EXCEPT ![t].pc = "final"]
    ELSE ItemDone(tasks, t, "added")

\* addToPendingQueue: read `queue:pending`; nothing more if the word is in it
AddToPendingQueueGet(t) ==
    /\ task[t].op \in {"store", "item"} /\ task[t].pc = "queue_get"
    /\ LET queue == kv.queue
       IN  task' = IF Includes(queue, task[t].key)
                   THEN AfterAdd(task, t)
                   ELSE [task EXCEPT ![t].queue = Append(queue, task[t].key),
                                     ![t].pc = "queue_put"]
    /\ UNCHANGED <<kv, calls, cleared, cache, version>>

\* addToPendingQueue: kv.put(queueKey, queue); updateStats is entered
AddToPendingQueuePut(t) ==
    /\ task[t].op \in {"store", "item"} /\ task[t].pc = "queue_put"
    /\ kv' = [kv EXCEPT !.queue = task[t].queue]
    /\ task' = [task EXCEPT
                    ![t].updates = [pendingCount |-> Len(task[t].queue)],
                    ![t].cont = "added", ![t].pc = "stats_get"]
    /\ UNCHANGED <<calls, cleared, cache, version>>

\* updateStats: const current = await getStats(kv)
UpdateStatsGet(t) ==
    /\ task[t].pc = "stats_get"
    /\ task' = [task EXCEPT ![t].current = GetStats(kv), ![t].pc = "stats_put"]
    /\ UNCHANGED <<kv, calls, cleared, cache, version>>

\* what follows `await updateStats(...)` in the caller
AfterUpdateStats(tasks, t) ==
    CASE tasks[t].cont = "added" -> AfterAdd(tasks, t)
      [] tasks[t].cont = "marked" -> [tasks EXCEPT ![t].pc = "pending_get"]
      [] tasks[t].cont = "cleared" -> [tasks EXCEPT ![t].pc = "done"]

\* updateStats: kv.put('meta:stats', { ...current, ...updates })
UpdateStatsPut(t) ==
    /\ task[t].pc = "stats_put"
    /\ kv' = [kv EXCEPT !.stats = <<Overlay(task[t].current, task[t].updates)>>]
    /\ task' = AfterUpdateStats(
                  [task EXCEPT
                      ![t].marked =
                          IF task[t].cont = "marked"
                          THEN Overlay(task[t].current, task[t].updates).isProcessing ELSE @,
                      ![t].current = DefaultStats, ![t].updates = <<>>, ![t].queue = <<>>],
                  t)
    /\ UNCHANGED <<calls, cleared, cache, version>>

(***************************************************************************)
(* bulkUploadWords                                                         *)
(***************************************************************************)
\* errors: [{ word: '', error: `Batch size ... exceeds tier limit of ...` }]
SizeError(size, limit) ==
    [word |-> <<>>, error |-> "Batch size exceeds tier limit", size |-> size, limit |-> limit]

\* errors.push({ word: item.word, error: err.message })
ItemError(word) == [word |-> word, error |-> "kv", size |-> 0, limit |-> 0]

\* words.length > maxAllowed && tier !== 'unlimited' (the cap of `unlimited` is Infinity)
ExceedsTier(size, tier) == tier # "unlimited" /\ size > TierMax(tier)

\* the call starts: getConfig, the size check, `now`, the first sub-batch
BulkUploadWords(t, words, skipDuplicates, tier, triggerPRThreshold) ==
    LET config == GetConfig(kv)
        rejected == ExceedsTier(Len(words), tier)
        started == [task EXCEPT ![t] =
                      [IdleTask EXCEPT
                          !.op = "bulk", !.config = config, !.now = Now,
                          !.bulk = [NoBulk EXCEPT
                                      !.items = words, !.skipDuplicates = skipDuplicates,
                                      !.tier = tier, !.size = Len(words),
                                      !.triggerPRThreshold = triggerPRThreshold,
                                      !.prThreshold = config.prThreshold]]]
    IN  /\ task[t].op = "idle"
        /\ rejected \/ ValidCount(FirstBatch(words)) <= Cardinality(IdleSlots(task) \ {t})
        /\ task' = IF rejected
                   THEN [started EXCEPT
                            ![t].bulk.items = <<>>,
                            ![t].bulk.errors = <<SizeError(Len(words), TierMax(tier))>>,
                            ![t].pc = "done"]
                   ELSE NextBatch(started, t)
        /\ UNCHANGED <<kv, cleared, cache, version>>

\* an item: getLearnedWord has answered
ItemGetWord(u) ==
    /\ task[u].op = "item" /\ task[u].pc = "item_get"
    /\ LET existing == GetLearnedWord(kv, task[u].key)
       IN  task' =
             IF existing # NoRec
             THEN IF task[task[u].parent].bulk.skipDuplicates
                  THEN ItemDone(task, u, "skipped")
                  ELSE [task EXCEPT ![u].existing = existing, ![u].pc = "item_put_updated"]
             ELSE [task EXCEPT ![u].pc = "item_put_new"]
    /\ UNCHANGED <<kv, calls, cleared, cache, version>>

\* the record a bulk item writes over an existing one
BulkUpdatedWord(existing, translations, confidence, now) ==
    [existing EXCEPT
        !.translations = MergeTranslations(existing.translations, translations),
        !.seenCount = existing.seenCount + 1,
        !.lastSeen = now,
        !.confidence = OrDefault(confidence, existing.confidence)]

\* the record a bulk item creates
BulkNewWord(key, translations, confidence, now) ==
    [word |-> key, sourceLanguage |-> "en", translations |-> translations,
     detectedPos |-> "", firstSeen |-> now, seenCount |-> 1, lastSeen |-> now,
     confidence |-> OrDefault(confidence, Tenths(9)),
     contexts |-> <<>>, source |-> "bulk"]

\* an item: kv.put of the updated record; updated++
ItemPutUpdated(u) ==
    /\ task[u].op = "item" /\ task[u].pc = "item_put_updated"
    /\ kv' = [kv EXCEPT !.words[task[u].key] =
                BulkUpdatedWord(task[u].existing, task[u].trans, task[u].conf, task[u].now)]
    /\ task' = ItemDone(task, u, "updated")
    /\ UNCHANGED <<calls, cleared, cache, version>>

\* an item: kv.put of the new record; addToPendingQueue is entered
ItemPutNew(u) ==
    /\ task[u].op = "item" /\ task[u].pc = "item_put_new"
    /\ kv' = [kv EXCEPT !.words[task[u].key] =
                BulkNewWord(task[u].key, task[u].trans, task[u].conf, task[u].now)]
    /\ task' = [task EXCEPT ![u].pc = "queue_get"]
    /\ UNCHANGED <<calls, cleared, cache, version>>

\* the catch of an item whose error ends the whole upload: no later sub-batch
ItemFailedAborting(tasks, u) ==
    ItemDone([tasks EXCEPT ![tasks[u].parent].bulk.errors = Append(@, ItemError(tasks[u].raw)),
                           ![tasks[u].parent].bulk.items = <<>>],
             u, "none")

\* catch (err) { errors.push(...) }: the item ends, the others go on
ItemFailed(tasks, u) ==
    ItemDone([tasks EXCEPT ![tasks[u].parent].bulk.errors = Append(@, ItemError(tasks[u].raw))],
             u, "none")

\* the key-value operation an item is waiting for rejects
ItemFails(u) ==
    /\ task[u].op = "item"
    /\ task' = ItemFailed(task, u)
    /\ UNCHANGED <<kv, calls, cleared, cache, version>>

\* after the loop: getStats, and the result
BulkGetStats(t) ==
    /\ task[t].op = "bulk" /\ task[t].pc = "bulk_stats"
    /\ LET stats == GetStats(kv)
           b == task[t].bulk
           prThreshold == IF b.triggerPRThreshold # 0 THEN b.triggerPRThreshold
                          ELSE task[t].config.prThreshold
       IN  task' = [task EXCEPT
                ![t].stats = stats,
                ![t].bulk = [b EXCEPT !.success = (b.errors = <<>>),
                                      !.prThreshold = prThreshold],
                ![t].ret = [stored |-> TRUE,
                            shouldTriggerPR |->
                                ShouldTriggerPR([task[t].config EXCEPT
                                                    !.prThreshold = prThreshold], stats),
                            pendingCount |-> stats.pendingCount],
                ![t].pc = "done"]
    /\ UNCHANGED <<kv, calls, cleared, cache, version>>

(***************************************************************************)
(* setConfig                                                               *)
(***************************************************************************)
\* the call starts: const current = await getConfig(kv)
SetConfig(t, updates) ==
    /\ task[t].op = "idle"
    /\ task' = [task EXCEPT ![t] =
                  [IdleTask EXCEPT !.op = "setConfig", !.pc = "config_put",
                                   !.config = GetConfig(kv), !.updates = updates]]
    /\ UNCHANGED <<kv, cleared, cache, version>>

\* kv.put('meta:config', { ...current, ...updates })
SetConfigPut(t) ==
    /\ task[t].op = "setConfig" /\ task[t].pc = "config_put"
    /\ kv' = [kv EXCEPT !.config = <<Overlay(task[t].config, task[t].updates)>>]
    /\ task' = [task EXCEPT ![t].pc = "done"]
    /\ UNCHANGED <<calls, cleared, cache, version>>

(***************************************************************************)
(* The Contribution Trigger.  markProcessing, getPendingWords and          *)
(* clearPendingQueue are the ledger's; createDictionaryPR is the PR        *)
(* creator's; the procedure that calls them in turn is not among the       *)
(* sources and follows section 4.4 of the specification.                   *)
(***************************************************************************)
\* markProcessing writing the flag the wrong way round
MarkProcessingUpdatesCleared == [isProcessing |-> FALSE]

\* updateStats(kv, { isProcessing: true })
MarkProcessingUpdates == [isProcessing |-> TRUE]

\* a request whose result said shouldTriggerPR starts a contribution:
\* step 1, markProcessing, enters updateStats
TriggerContribution(t, configured) ==
    /\ task[t].op \in {"store", "bulk"} /\ task[t].pc = "done"
    /\ task[t].ret.shouldTriggerPR
    /\ task' = [task EXCEPT
                    ![t].op = "contrib", ![t].configured = configured,
                    ![t].updates = MarkProcessingUpdates,
                    ![t].cont = "marked", ![t].pc = "stats_get"]
    /\ UNCHANGED <<kv, calls, cleared, cache, version>>

\* the GitHubConfig check and the empty-words check that open createDictionaryPR;
\* when both pass, the base-ref request is sent
CreateDictionaryPREntry(tk) ==
    IF ~tk.configured
    THEN [tk EXCEPT !.result = [NoResult EXCEPT !.error = "Missing GitHub configuration"],
                    !.pc = "failed"]
    ELSE IF tk.words = <<>>
         THEN [tk EXCEPT !.result = [NoResult EXCEPT !.error = "No words to add"],
                         !.pc = "failed"]
         ELSE [tk EXCEPT !.pc = "get_base_ref"]

\* getPendingWords: read `queue:pending`
GetPendingWordsQueue(t) ==
    /\ task[t].op = "contrib" /\ task[t].pc = "pending_get"
    /\ task' = [task EXCEPT ![t] =
                  IF kv.queue = <<>>
                  THEN CreateDictionaryPREntry([task[t] EXCEPT !.queue = <<>>, !.words = <<>>])
                  ELSE [task[t] EXCEPT !.queue = kv.queue, !.words = <<>>,
                                       !.pc = "pending_word"]]
    /\ UNCHANGED <<kv, calls, cleared, cache, version>>

\* getPendingWords: getLearnedWord for the next key of the queue it read
GetPendingWordsWord(t) ==
    /\ task[t].op = "contrib" /\ task[t].pc = "pending_word"
    /\ LET learned == GetLearnedWord(kv, Head(task[t].queue))
           tk == [task[t] EXCEPT
                    !.queue = Tail(@),
                    !.words = IF learned # NoRec THEN Append(@, learned) ELSE @]
       IN  task' = [task EXCEPT ![t] =
                      IF tk.queue = <<>> THEN CreateDictionaryPREntry(tk) ELSE tk]
    /\ UNCHANGED <<kv, calls, cleared, cache, version>>

\* the hosting-API requests of createDictionaryPR, in the order it sends them
ApiSteps == <<"get_base_ref", "create_branch", "get_file", "update_file", "create_pr">>

ApiIndex(step) == CHOOSE i \in 1 .. Len(ApiSteps) : ApiSteps[i] = step

\* how a request can end: a 2xx answer, a non-2xx answer, a thrown error; the
\* lexicon file may also come back without the insertion marker
ApiOutcomes(step) ==
    IF step = "get_file" THEN {"ok", "not_ok", "throws", "no_marker"}
    ELSE {"ok", "not_ok", "throws"}

PRNumbers == {1, 2}

\* generateDictEntries: one entry per word it is given, in their order
GenerateDictEntries(words) ==
    [i \in 1 .. Len(words) |->
        [word |-> words[i].word, translations |-> words[i].translations,
         pos |-> IF words[i].detectedPos = "" THEN "unknown" ELSE words[i].detectedPos,
         frequency |-> 999]]

\* a failed request that createDictionaryPR passes over, going on to the next one
ApiFailureIgnored(logged, step) ==
    [logged EXCEPT !.pc = IF ApiIndex(step) < Len(ApiSteps)
                          THEN ApiSteps[ApiIndex(step) + 1] ELSE "failed"]

\* return { success: false, error }, from a failed check or from the catch
ApiFailure(logged, step) ==
    [logged EXCEPT !.result = [NoResult EXCEPT !.error = step], !.pc = "failed"]

\* the text a failure message carries: `${error}` of `await res.text()` behind
\* 'Failed to ...: ' (base ref, branch, file update, pull request), error.message
\* in the catch; 'Failed to get dictionary.ts' and the missing marker carry none
ErrorDetail(step, outcome, detail) ==
    IF outcome = "throws" \/ (outcome = "not_ok" /\ step # "get_file") THEN detail
    ELSE NoDetail

\* one request of createDictionaryPR is answered; detail is the body of a
\* non-2xx answer or the message of the thrown error
ApiCall(t, outcome, prNumber, detail) ==
    /\ task[t].op = "contrib"
    /\ \E i \in 1 .. Len(ApiSteps) : task[t].pc = ApiSteps[i]
    /\ outcome \in ApiOutcomes(task[t].pc)
    /\ LET step == task[t].pc
           i == ApiIndex(step)
           logged == [task[t] EXCEPT
                        !.api = Append(@, [step |-> step, ok |-> outcome = "ok"])]
       IN  task' = [task EXCEPT ![t] =
                IF outcome # "ok"
                THEN [ApiFailure(logged, step) EXCEPT
                         !.result.detail = ErrorDetail(step, outcome, detail)]
                ELSE IF i < Len(ApiSteps)
                     THEN [logged EXCEPT
                              !.pc = ApiSteps[i + 1],
                              !.patch = IF step = "get_file"
                                        THEN GenerateDictEntries(logged.words) ELSE @]
                     ELSE [logged EXCEPT
                              !.result = [NoResult EXCEPT !.success = TRUE,
                                                          !.prNumber = prNumber],
                              !.pc = "clear_queue"]]
    /\ UNCHANGED <<kv, calls, cleared, cache, version>>

\* clearPendingQueue deleting the contributed records together with the queue
ClearedStoreDroppingWords(store) ==
    [store EXCEPT
        !.queue = <<>>,
        !.words = [k \in WordKeys |-> IF Includes(store.queue, k) THEN NoRec ELSE @[k]]]

\* kv.put('queue:pending', JSON.stringify([]))
ClearedStore(store) == [store EXCEPT !.queue = <<>>]

\* clearPendingQueue leaving the processing flag set
ClearPendingQueueUpdatesKeepingFlag(prNumber, now) ==
    [pendingCount |-> 0, lastSyncToRepo |-> now, lastPRNumber |-> prNumber]

\* the stats fields clearPendingQueue passes to updateStats
ClearPendingQueueUpdates(prNumber, now) ==
    [pendingCount |-> 0, lastSyncToRepo |-> now, lastPRNumber |-> prNumber,
     isProcessing |-> FALSE]

\* step 6, clearPendingQueue(kv, prNumber): the queue is overwritten, `new Date()`
\* is read, updateStats is entered
ClearPendingQueue(t) ==
    /\ task[t].op = "contrib" /\ task[t].pc = "clear_queue"
    /\ kv' = ClearedStore(kv)
    /\ task' = [task EXCEPT
                    ![t].updates = ClearPendingQueueUpdates(task[t].result.prNumber, Now),
                    ![t].cont = "cleared", ![t].pc = "stats_get"]
    /\ cleared' = TRUE
    /\ UNCHANGED <<calls, cache, version>>

\* a finished request leaves its slot
Return(t) ==
    /\ task[t].pc \in {"done", "failed"}
    /\ task' = [task EXCEPT ![t] = IdleTask]
    /\ UNCHANGED <<kv, calls, cleared, cache, version>>

(***************************************************************************)
(* Concurrent requests against one namespace                               *)
(***************************************************************************)
\* inputs of the concurrent requests
ConcTranslations == { [l \in Langs |-> IF l = "es" THEN "uno" ELSE Absent] }

ConcConfidences == {NoConf}

BulkItem(word) == [word |-> word, translations |-> [l \in Langs |-> IF l = "fr" THEN "un" ELSE Absent],
                   confidence |-> NoConf]

ConcBulkWords ==
    { <<BulkItem(<<"a", "b">>), BulkItem(<<"c", "d">>)>>,
      <<BulkItem(<<"a", "b">>), BulkItem(<<" ", "A", "B">>)>> }

\* configurations an operator has set with setConfig before the requests arrive
ConcConfigs ==
    { [DEFAULT_CONFIG EXCEPT !.prThreshold = n, !.autoTrigger = b] :
        n \in {1, 2}, b \in BOOLEAN }

ConcConfigUpdates == { [autoTrigger |-> FALSE], [prThreshold |-> 1] }

Init ==
    /\ \E c \in ConcConfigs : kv = [EmptyStore EXCEPT !.config = <<c>>]
    /\ task = [t \in Tasks |-> IdleTask]
    /\ calls = 0
    /\ cleared = FALSE
    /\ cache = EmptyCache
    /\ version = CACHE_VERSION

\* a request may arrive while fewer than MaxCalls have, and takes the lowest free slot
Arrives(t) ==
    /\ calls < MaxCalls
    /\ calls' = calls + 1
    /\ IdleSlots(task) # {} /\ t = LowestIdle(task)

Next ==
    \E t \in Tasks :
        \/ \E w \in ConcRawWords, tr \in ConcTranslations, c \in ConcConfidences :
              /\ Arrives(t)
              /\ kv.words[Normalize(w)].seenCount < MaxSeen
              /\ StoreLearnedWord(t, w, tr, c, NoContext)
        \/ \E ws \in ConcBulkWords, sd \in BOOLEAN :
              Arrives(t) /\ BulkUploadWords(t, ws, sd, "small", 0)
        \/ \E u \in ConcConfigUpdates : Arrives(t) /\ SetConfig(t, u)
        \/ StorePutUpdated(t)
        \/ StoreMergeReturn(t)
        \/ StorePutNew(t)
        \/ StoreGetStats(t)
        \/ StoreGetConfig(t)
        \/ AddToPendingQueueGet(t)
        \/ AddToPendingQueuePut(t)
        \/ UpdateStatsGet(t)
        \/ UpdateStatsPut(t)
        \/ ItemGetWord(t)
        \/ ItemPutUpdated(t)
        \/ ItemPutNew(t)
        \/ BulkGetStats(t)
        \/ SetConfigPut(t)
        \/ \E configured \in BOOLEAN : TriggerContribution(t, configured)
        \/ GetPendingWordsQueue(t)
        \/ GetPendingWordsWord(t)
        \/ \E o \in {"ok", "not_ok", "throws", "no_marker"}, n \in PRNumbers :
              ApiCall(t, o, n, NoDetail)
        \/ ClearPendingQueue(t)
        \/ Return(t)

Spec == Init /\ [][Next]_vars

(***************************************************************************)
(* The sequential scenario: one client on a fresh ledger with the default  *)
(* configuration stores distinct words one after another, and may repeat   *)
(* the first one                                                           *)
(***************************************************************************)
SeqConfidences == {NoConf, 0, Tenths(6), Tenths(8)}

StoredCount == Cardinality({k \in WordKeys : kv.words[k] # NoRec})

SeqInit ==
    /\ kv = EmptyStore
    /\ task = [t \in Tasks |-> IdleTask]
    /\ calls = 0
    /\ cleared = FALSE
    /\ cache = EmptyCache
    /\ version = CACHE_VERSION

\* the next distinct word
SeqStoreFresh ==
    /\ StoredCount < NumSeqWords
    /\ \E c \in IF StoredCount = 0 THEN {NoConf, Tenths(8)} ELSE {NoConf} :
          StoreLearnedWord(1, SeqWord(StoredCount + 1),
                           [l \in Langs |-> IF l = "es" THEN "uno" ELSE Absent], c, NoContext)
    /\ UNCHANGED calls

\* the first word again
SeqStoreAgain ==
    /\ kv.words[Normalize(SeqWord(1))].seenCount \in 1 .. MaxSeen - 1
    /\ \E c \in SeqConfidences :
          StoreLearnedWord(1, SeqWord(1),
                           [l \in Langs |-> IF l = "fr" THEN "un" ELSE Absent], c, NoContext)
    /\ UNCHANGED calls

SeqNext ==
    \/ SeqStoreFresh
    \/ SeqStoreAgain
    \/ StorePutUpdated(1)
    \/ StoreMergeReturn(1)
    \/ StorePutNew(1)
    \/ StoreGetStats(1)
    \/ StoreGetConfig(1)
    \/ AddToPendingQueueGet(1)
    \/ AddToPendingQueuePut(1)
    \/ UpdateStatsGet(1)
    \/ UpdateStatsPut(1)
    \/ Return(1)

SeqSpec == SeqInit /\ [][SeqNext]_vars

(***************************************************************************)
(* The single-word scenario: one client sights the word "ab", under two    *)
(* spellings, again and again, through storeLearnedWord or through a       *)
(* one-item bulkUploadWords, with confidences from both ends of [0,1]      *)
(***************************************************************************)
LedgerRawWords == { <<"a", "b">>, <<" ", "A", "B">> }

LedgerKey == <<"a", "b">>

LedgerConfidences == {NoConf, 0, Tenths(6), ONE}

\* two translation maps that share the key "es"
LedgerTranslations ==
    { [l \in Langs |-> IF l = "es" THEN "uno" ELSE Absent],
      [l \in Langs |-> IF l = "es" THEN "una" ELSE "un"] }

LedgerItem(word, translations, confidence) ==
    [word |-> word, translations |-> translations, confidence |-> confidence]

LedgerStore ==
    /\ kv.words[LedgerKey].seenCount < MaxSeen
    /\ \E w \in LedgerRawWords, tr \in LedgerTranslations, c \in LedgerConfidences :
          StoreLearnedWord(1, w, tr, c, NoContext)
    /\ UNCHANGED calls

LedgerBulk ==
    /\ kv.words[LedgerKey].seenCount < MaxSeen
    /\ \E w \in LedgerRawWords, tr \in LedgerTranslations, c \in LedgerConfidences :
          BulkUploadWords(1, <<LedgerItem(w, tr, c)>>, FALSE, "small", 0)
    /\ UNCHANGED calls

LedgerNext ==
    \/ LedgerStore
    \/ LedgerBulk
    \/ StorePutUpdated(1)
    \/ StoreMergeReturn(1)
    \/ StorePutNew(1)
    \/ StoreGetStats(1)
    \/ StoreGetConfig(1)
    \/ \E t \in {1, 2} : AddToPendingQueueGet(t)
    \/ \E t \in {1, 2} : AddToPendingQueuePut(t)
    \/ \E t \in {1, 2} : UpdateStatsGet(t)
    \/ \E t \in {1, 2} : UpdateStatsPut(t)
    \/ ItemGetWord(2)
    \/ ItemPutUpdated(2)
    \/ ItemPutNew(2)
    \/ BulkGetStats(1)
    \/ Return(1)

LedgerSpec == SeqInit /\ [][LedgerNext]_vars

(***************************************************************************)
(* The context scenario: one client sights the word "cd" again and again,  *)
(* with one of two contexts or with none                                   *)
(***************************************************************************)
CtxKey == <<"c", "d">>

CtxContexts == {NoContext, "c1", "c2"}

CtxStore ==
    /\ kv.words[CtxKey].seenCount < MaxCtxSeen
    /\ \E ctx \in CtxContexts :
          StoreLearnedWord(1, CtxKey, [l \in Langs |-> IF l = "es" THEN "dos" ELSE Absent],
                           NoConf, ctx)
    /\ UNCHANGED calls

CtxNext ==
    \/ CtxStore
    \/ StorePutUpdated(1)
    \/ StoreMergeReturn(1)
    \/ StorePutNew(1)
    \/ StoreGetStats(1)
    \/ StoreGetConfig(1)
    \/ AddToPendingQueueGet(1)
    \/ AddToPendingQueuePut(1)
    \/ UpdateStatsGet(1)
    \/ UpdateStatsPut(1)
    \/ Return(1)

CtxSpec == SeqInit /\ [][CtxNext]_vars

(***************************************************************************)
(* getLearnedTranslation, applied to ledgers that hold the word "ab" with  *)
(* some confidence and some number of sightings, or do not hold it, under  *)
(* configurations with different minConfidence                             *)
(***************************************************************************)
\* the bar with `&&` written for `||`
LearnedBarBoth(learned) ==
    learned.confidence >= Tenths(7) /\ learned.seenCount >= 3

\* learned.confidence >= 0.7 || learned.seenCount >= 3
LearnedBar(learned) ==
    learned.confidence >= Tenths(7) \/ learned.seenCount >= 3

\* the value getLearnedTranslation resolves to
LearnedTranslation(store, word, targetLang) ==
    LET learned == GetLearnedWord(store, Normalize(word))
    IN  IF /\ learned # NoRec
           /\ learned.translations[targetLang] \notin {Absent, ""}
           /\ LearnedBar(learned)
        THEN learned.translations[targetLang]
        ELSE Null

\* the whole call: one read of `word:{w}`
GetLearnedTranslation(t, word, targetLang) ==
    /\ task[t].op = "idle"
    /\ task' = [task EXCEPT ![t] =
                  [IdleTask EXCEPT !.op = "lookup", !.pc = "done",
                                   !.key = Normalize(word), !.lang = targetLang,
                                   !.answer = LearnedTranslation(kv, word, targetLang)]]
    /\ UNCHANGED <<kv, calls, cleared, cache, version>>

LookupConfidences == {Tenths(5), Tenths(6), Tenths(7), Tenths(9)}

LookupSightings == 1 .. 3

\* records storeLearnedWord leaves after n sightings with the same confidence
LookupRecords ==
    {NoRec} \cup
    { [NewWord(LedgerKey, tr, c, NoContext, Now) EXCEPT !.seenCount = n] :
        tr \in LedgerTranslations, c \in LookupConfidences, n \in LookupSightings }

LookupConfigs ==
    { [DEFAULT_CONFIG EXCEPT !.minConfidence = m] : m \in {Tenths(5), Tenths(7), Tenths(9)} }

LookupInit ==
    /\ \E r \in LookupRecords, c \in LookupConfigs :
          kv = [EmptyStore EXCEPT !.words[LedgerKey] = r, !.config = <<c>>,
                                  !.queue = IF r = NoRec THEN <<>> ELSE <<LedgerKey>>]
    /\ task = [t \in Tasks |-> IdleTask]
    /\ calls = 0
    /\ cleared = FALSE
    /\ cache = EmptyCache
    /\ version = CACHE_VERSION

LookupNext ==
    \/ \E w \in LedgerRawWords, l \in Langs : GetLearnedTranslation(1, w, l)
    \/ Return(1)

LookupSpec == LookupInit /\ [][LookupNext]_vars

(***************************************************************************)
(* The bulk scenario: one client uploads lists of 100 and of 101 words     *)
(* under different tiers; three words of a list are valid, two in the      *)
(* first sub-batch and one in the second, the others are too short (one of *)
(* them only once it is trimmed), empty or too long and are skipped; any   *)
(* key-value operation of an item may fail                                 *)
(***************************************************************************)
BulkSizes == {100, 101}

BulkTiers == {"small", "medium", "unlimited"}

\* where the valid words of a list are
BulkWordAt(i) ==
    CASE i = 1 -> <<"a", "b">>
      [] i = 2 -> <<" ", "C", "D">>
      [] i = 3 -> <<" ", "X", " ">>
      [] i = 4 -> <<" ", " ">>
      [] i = 51 -> SeqWord(1)
      [] i = 52 -> LongWord
      [] OTHER -> <<"x">>

BulkList(n) == [i \in 1 .. n |-> BulkItem(BulkWordAt(i))]

BulkValidKeys == { Normalize(BulkWordAt(i)) : i \in {1, 2, 51} }

BulkUpload ==
    /\ calls < MaxCalls
    /\ calls' = calls + 1
    /\ \E n \in BulkSizes, sd \in BOOLEAN, tier \in BulkTiers :
          BulkUploadWords(1, BulkList(n), sd, tier, 0)

BulkNext ==
    \/ BulkUpload
    \/ \E u \in Tasks : ItemGetWord(u)
    \/ \E u \in Tasks : ItemPutUpdated(u)
    \/ \E u \in Tasks : ItemPutNew(u)
    \/ \E u \in Tasks : AddToPendingQueueGet(u)
    \/ \E u \in Tasks : AddToPendingQueuePut(u)
    \/ \E u \in Tasks : UpdateStatsGet(u)
    \/ \E u \in Tasks : UpdateStatsPut(u)
    \/ \E u \in Tasks : ItemFails(u)
    \/ BulkGetStats(1)
    \/ Return(1)

BulkSpec == SeqInit /\ [][BulkNext]_vars

(***************************************************************************)
(* The translation pipeline: POST /translate (src/src/index.ts)            *)
(***************************************************************************)
\* text.trim().substring(0, 5000)
TextLimit == 5000

Truncate(s) == SubSeq(s, 1, Min(Len(s), TextLimit))

\* str.charCodeAt(i), for the characters the model's texts are written in
CharCode(c) ==
    CASE c = " " -> 32
      [] c = "A" -> 65
      [] c = "B" -> 66
      [] c = "G" -> 71
      [] c = "a" -> 97
      [] c = "g" -> 103
      [] c = "n" -> 110
      [] c = "o" -> 111
      [] c = "z" -> 122

\* the 32 bits of the hash are held as two halves <<high, low>> of 16 bits
HashWord == 65536

\* hashString's loop: hash = ((hash << 5) - hash) + char, which is 31 * hash + char,
\* cut to 32 bits by `hash & hash`
HashStep(hash, char) ==
    LET low == (31 * hash[2]) + CharCode(char)
        high == (31 * hash[1]) + (low \div HashWord)
    IN  <<high % HashWord, low % HashWord>>

\* the loop variable after the loop has run over str, starting from hash (the
\* test on the high half is always true; it makes TLC compute every step
\* before the next one instead of nesting them all)
RECURSIVE HashFrom(_, _)
HashFrom(hash, str) ==
    IF str = <<>> THEN hash
    ELSE LET next == HashStep(hash, Head(str))
         IN  IF next[1] < HashWord THEN HashFrom(next, Tail(str)) ELSE next

\* Math.abs(hash): a hash whose sign bit is set is negated
Abs32(hash) ==
    IF hash[1] < HashWord \div 2 THEN hash
    ELSE <<((HashWord - 1 - hash[1]) + (IF hash[2] = 0 THEN 1 ELSE 0)) % HashWord,
           (HashWord - hash[2]) % HashWord>>

\* hashString(str); the hexadecimal rendering is one-to-one and is left out
HashString(str) == Abs32(HashFrom(<<0, 0>>, str))

\* a translation key that does not follow the deployed version
TranslationCacheKeyFixed(from, to, normalizedText) ==
    <<CACHE_VERSION, "trans", from, to, HashString(normalizedText)>>

\* `${CACHE_VERSION}:trans:${from}:${to}:${hashString(normalizedText)}`
TranslationCacheKey(from, to, normalizedText) ==
    <<version, "trans", from, to, HashString(normalizedText)>>

\* s.split(/\s+/): the pieces between runs of spaces (an empty first or last
\* piece where the text starts or ends with a space)
RECURSIVE SplitFrom(_, _, _)
SplitFrom(s, piece, inRun) ==
    IF s = <<>> THEN <<piece>>
    ELSE IF IsSpace(Head(s))
         THEN IF inRun THEN SplitFrom(Tail(s), piece, TRUE)
              ELSE <<piece>> \o SplitFrom(Tail(s), <<>>, TRUE)
         ELSE SplitFrom(Tail(s), Append(piece, Head(s)), FALSE)

Split(s) == SplitFrom(s, <<>>, FALSE)

\* .filter(w => w.length > 0)
NonEmpty(pieces) == SelectSeq(pieces, LAMBDA w : Len(w) > 0)

\* a join that puts the pieces in the reverse order
RECURSIVE JoinReversed(_)
JoinReversed(pieces) ==
    IF pieces = <<>> THEN <<>>
    ELSE IF Len(pieces) = 1 THEN pieces[1]
         ELSE JoinReversed(Tail(pieces)) \o <<" ">> \o pieces[1]

\* pieces.join(' ')
RECURSIVE Join(_)
Join(pieces) ==
    IF pieces = <<>> THEN <<>>
    ELSE IF Len(pieces) = 1 THEN pieces[1]
         ELSE pieces[1] \o <<" ">> \o Join(Tail(pieces))

\* the entries of CORE_DICTIONARY the model's texts can meet: "go", "no" and
\* "hello", which have an etymology, and "he", which has none
LexiconWords ==
    { <<"g", "o">>, <<"n", "o">>, <<"h", "e", "l", "l", "o">>, <<"h", "e">> }

\* (the Spanish "él" of "he" is written without its accent)
CORE_DICTIONARY ==
    [w \in LexiconWords |->
        CASE w = <<"g", "o">> ->
                [translations |-> [l \in Langs |-> IF l = "es" THEN <<"i", "r">>
                                                   ELSE <<"a", "l", "l", "e", "r">>],
                 etymology |-> TRUE]
          [] w = <<"n", "o">> ->
                [translations |-> [l \in Langs |-> IF l = "es" THEN <<"n", "o">>
                                                   ELSE <<"n", "o", "n">>],
                 etymology |-> TRUE]
          [] w = <<"h", "e", "l", "l", "o">> ->
                [translations |-> [l \in Langs |-> IF l = "es" THEN <<"h", "o", "l", "a">>
                                                   ELSE <<"b", "o", "n", "j", "o", "u", "r">>],
                 etymology |-> TRUE]
          [] w = <<"h", "e">> ->
                [translations |-> [l \in Langs |-> IF l = "es" THEN <<"e", "l">>
                                                   ELSE <<"i", "l">>],
                 etymology |-> FALSE]]

\* lookupWord(word) found an entry
InLexicon(word) == Normalize(word) \in LexiconWords

LookupWord(word) == CORE_DICTIONARY[Normalize(word)]

\* translateWord(word, targetLang) is not null
Resolves(word, targetLang) ==
    /\ InLexicon(word)
    /\ targetLang \in DOMAIN LookupWord(word).translations
    /\ LookupWord(word).translations[targetLang] # <<>>

\* translateWord(word, targetLang), where it resolves
TranslateWord(word, targetLang) ==
    [original |-> word, translated |-> LookupWord(word).translations[targetLang],
     source |-> "dictionary", etymology |-> LookupWord(word).etymology]

\* translateWords(words, targetLang)
TranslateWords(words, targetLang) ==
    [translated |-> [i \in 1 .. Len(SelectSeq(words, LAMBDA w : Resolves(w, targetLang))) |->
                        TranslateWord(SelectSeq(words, LAMBDA w : Resolves(w, targetLang))[i],
                                      targetLang)],
     notFound |-> SelectSeq(words, LAMBDA w : ~Resolves(w, targetLang))]

\* !!getDictEtymology(word)
HasEtymology(word) == InLexicon(word) /\ LookupWord(word).etymology

\* the target languages M2M100_LANG_CODES has a code for
M2M100_LANG_CODES == {"en", "es", "fr"}

\* what the AI binding answers in the model
M2mText == <<"v", "a">>

LlmReply == <<" ", "v", "o", " ">>

AiOutcomes == {"text", "empty", "throws"}

\* parseInt(c.env.CACHE_TTL_SECONDS) || 86400, the variable being unset
CacheTtl == 86400

\* the dictionary result, built when every token resolved
DictionaryResult(text, from, to, translated) ==
    [original |-> text,
     translated |-> Join([i \in 1 .. Len(translated) |-> translated[i].translated]),
     from_language |-> IF from = "auto" THEN "en" ELSE from,
     to_language |-> to, cached |-> FALSE, source |-> "dictionary",
     words |-> [i \in 1 .. Len(translated) |->
                  [original |-> translated[i].original,
                   translated |-> translated[i].translated,
                   hasEtymology |-> translated[i].etymology]]]

\* partialResult: per token, its dictionary translation or the token itself
PartialResult(words, to) ==
    [i \in 1 .. Len(words) |->
        IF Resolves(words[i], to)
        THEN [word |-> words[i], translated |-> TranslateWord(words[i], to).translated,
              source |-> "dictionary"]
        ELSE [word |-> words[i], translated |-> words[i], source |-> "unknown"]]

HasUnknown(words, to) == \E i \in 1 .. Len(words) : ~Resolves(words[i], to)

\* the result of step 3: the AI's text, the per-token list from partialResult
PartialApiResult(text, from, to, translatedText, words) ==
    [original |-> text, translated |-> translatedText,
     from_language |-> from, to_language |-> to, cached |-> FALSE, source |-> "api",
     words |-> [i \in 1 .. Len(words) |->
                  [original |-> PartialResult(words, to)[i].word,
                   translated |-> PartialResult(words, to)[i].translated,
                   hasEtymology |-> HasEtymology(words[i])]]]

\* the result of step 4: the AI's text, split and paired with the tokens by position
FullApiResult(text, from, to, translation, words) ==
    LET translatedWords == Split(translation)
        originalWord(i) == IF i <= Len(words) /\ words[i] # <<>>
                           THEN words[i] ELSE translatedWords[i]
    IN  [original |-> text, translated |-> translation,
         from_language |-> from, to_language |-> to, cached |-> FALSE, source |-> "api",
         words |-> [i \in 1 .. Len(translatedWords) |->
                      [original |-> originalWord(i), translated |-> translatedWords[i],
                       hasEtymology |-> HasEtymology(originalWord(i))]]]

\* a cache hit that forgets the annotation
CacheHitUnmarked(result) == result

\* { ...result, cached: true }
CacheHit(result) == [result EXCEPT !.cached = TRUE]

\* catch (err): c.json({ error: 'Translation failed', message: err.message }, 500)
TranslateFailed(rq, message) ==
    [rq EXCEPT !.status = 500,
               !.response = [error |-> "Translation failed", message |-> message]]

\* a translateWithCF that goes to the primary LLM at once
EnterTranslateWithCFPrimaryFirst(tk) ==
    [tk EXCEPT !.req.cf = Append(@, tk.req.text), !.pc = "llm_primary"]

\* translateWithCF is entered: m2m100 if it knows the target language, else the LLM
\* (req.cf keeps the text of every call of translateWithCF)
EnterTranslateWithCF(tk) ==
    [tk EXCEPT !.req.cf = Append(@, tk.req.text),
               !.pc = IF tk.req.to \in M2M100_LANG_CODES THEN "m2m" ELSE "llm_fast"]

\* steps 2 and 3 up to their first await: the whole-text dictionary result goes
\* to the cache write, everything else to the AI cascade
AfterCacheMiss(tk) ==
    LET rq == tk.req
        words == NonEmpty(Split(ToLowerCase(rq.text)))
        found == TranslateWords(words, rq.to)
        withWords == [tk EXCEPT !.req.words = words]
    IN  IF /\ Len(words) <= 10 /\ rq.from \in {"en", "auto"}
           /\ Len(found.notFound) = 0 /\ Len(found.translated) = Len(words)
        THEN [withWords EXCEPT
                 !.req.branch = "dictionary",
                 !.req.result = DictionaryResult(rq.text, rq.from, rq.to, found.translated),
                 !.pc = "cache_put"]
        ELSE EnterTranslateWithCF(
                 [withWords EXCEPT
                     !.req.branch = IF HasUnknown(words, rq.to) THEN "unknown" ELSE "known"])

\* the request arrives: validation, the bypass header, normalisation, the cache key
Translate(t, text, from, to, bypassCache) ==
    LET normalizedText == Truncate(Trim(text))
        rq == [NoReq EXCEPT !.text = normalizedText, !.from = from, !.to = to,
                            !.bypass = bypassCache,
                            !.cacheKey = TranslationCacheKey(from, to, normalizedText)]
        tk == [IdleTask EXCEPT !.op = "translate", !.req = rq]
    IN  /\ task[t].op = "idle"
        /\ task' = [task EXCEPT ![t] =
                      IF text = <<>> \/ to = ""
                      THEN [tk EXCEPT !.req = [NoReq EXCEPT
                                                  !.status = 400,
                                                  !.response = [error |-> "text and to language required"]],
                                      !.pc = "done"]
                      ELSE IF ~bypassCache THEN [tk EXCEPT !.pc = "cache_get"]
                           ELSE AfterCacheMiss(tk)]
        /\ UNCHANGED <<kv, cleared, cache, version>>

\* step 1: CACHE_KV.get(cacheKey) answers (or throws)
CacheGet(t, outcome) ==
    /\ task[t].op = "translate" /\ task[t].pc = "cache_get"
    /\ LET rq == task[t].req
           hit == rq.cacheKey \in DOMAIN cache
           read == [task[t] EXCEPT
                      !.req.cacheOps = Append(@, [op |-> "get", hit |-> outcome = "ok" /\ hit])]
       IN  task' = [task EXCEPT ![t] =
                IF Threw(outcome)
                THEN [read EXCEPT !.req = TranslateFailed(@, ErrMessage(outcome, "cache")),
                                  !.pc = "done"]
                ELSE IF hit
                     THEN [read EXCEPT !.req.status = 200,
                                       !.req.response = CacheHit(cache[rq.cacheKey].value),
                                       !.pc = "done"]
                     ELSE AfterCacheMiss(read)]
    /\ UNCHANGED <<kv, calls, cleared, cache, version>>

\* a pipeline that composes the translated text from the per-token results
TranslatedPerToken(tk, translation) ==
    LET rq == tk.req
        composed == Join([i \in 1 .. Len(rq.words) |->
                            PartialResult(rq.words, rq.to)[i].translated])
    IN  [tk EXCEPT
            !.req.result =
                IF rq.branch = "unknown"
                THEN PartialApiResult(rq.text, rq.from, rq.to, composed, rq.words)
                ELSE FullApiResult(rq.text, rq.from, rq.to, composed, rq.words),
            !.pc = "cache_put"]

\* the translation is there: the result is built and goes to the cache write
Translated(tk, translation) ==
    LET rq == tk.req
    IN  [tk EXCEPT
            !.req.result =
                IF rq.branch = "unknown"
                THEN PartialApiResult(rq.text, rq.from, rq.to, translation, rq.words)
                ELSE FullApiResult(rq.text, rq.from, rq.to, translation, rq.words),
            !.pc = "cache_put"]

\* one AI.run of the cascade answers: m2m100, then the fast LLM, then the primary
AiRun(t, outcome) ==
    /\ task[t].op = "translate" /\ task[t].pc \in {"m2m", "llm_fast", "llm_primary"}
    /\ LET model == task[t].pc
           called == [task[t] EXCEPT !.req.ai = Append(@, [model |-> model, outcome |-> outcome])]
       IN  task' = [task EXCEPT ![t] =
                CASE model = "m2m" ->
                        IF outcome = "text" THEN Translated(called, M2mText)
                        ELSE [called EXCEPT !.pc = "llm_fast"]
                  [] model = "llm_fast" ->
                        IF outcome = "text" THEN Translated(called, Trim(LlmReply))
                        ELSE [called EXCEPT !.pc = "llm_primary"]
                  [] model = "llm_primary" ->
                        IF outcome = "text" THEN Translated(called, Trim(LlmReply))
                        ELSE IF outcome = "empty" THEN Translated(called, called.req.text)
                        ELSE [called EXCEPT
                                 !.req = TranslateFailed(@, ErrMessage(outcome, "ai")),
                                 !.pc = "done"]]
    /\ UNCHANGED <<kv, calls, cleared, cache, version>>

\* a handler that caches the dictionary result only
CachePutOnlyDictionary(t, outcome) ==
    /\ task[t].op = "translate" /\ task[t].pc = "cache_put"
    /\ LET rq == task[t].req
           wrote == [task[t] EXCEPT
                       !.req.cacheOps = Append(@, [op |-> "put", hit |-> FALSE]),
                       !.pc = "done"]
       IN  IF Threw(outcome)
           THEN /\ task' = [task EXCEPT ![t] =
                              [wrote EXCEPT
                                  !.req = TranslateFailed(@, ErrMessage(outcome, "cache"))]]
                /\ cache' = cache
           ELSE /\ task' = [task EXCEPT ![t] =
                              [wrote EXCEPT !.req.status = 200, !.req.response = rq.result]]
                /\ cache' = IF rq.branch # "dictionary" THEN cache
                            ELSE [k \in DOMAIN cache \cup {rq.cacheKey} |->
                                    IF k = rq.cacheKey
                                    THEN [value |-> rq.result, ttl |-> CacheTtl, build |-> version]
                                    ELSE cache[k]]
    /\ UNCHANGED <<kv, calls, cleared, version>>

\* CACHE_KV.put(cacheKey, JSON.stringify(result), { expirationTtl }), then the response
CachePut(t, outcome) ==
    /\ task[t].op = "translate" /\ task[t].pc = "cache_put"
    /\ LET rq == task[t].req
           wrote == [task[t] EXCEPT
                       !.req.cacheOps = Append(@, [op |-> "put", hit |-> FALSE]),
                       !.pc = "done"]
       IN  IF Threw(outcome)
           THEN /\ task' = [task EXCEPT ![t] =
                              [wrote EXCEPT
                                  !.req = TranslateFailed(@, ErrMessage(outcome, "cache"))]]
                /\ cache' = cache
           ELSE /\ task' = [task EXCEPT ![t] =
                              [wrote EXCEPT !.req.status = 200, !.req.response = rq.result]]
                /\ cache' = [k \in DOMAIN cache \cup {rq.cacheKey} |->
                               IF k = rq.cacheKey
                               THEN [value |-> rq.result, ttl |-> CacheTtl, build |-> version]
                               ELSE cache[k]]
    /\ UNCHANGED <<kv, calls, cleared, version>>

(***************************************************************************)
(* The translate scenario: one client sends /translate requests one after  *)
(* another against one cache                                               *)
(***************************************************************************)
\* the longest text sent has one token more than the dictionary stage accepts
LongTextTokens == 11

\* a text of n tokens the lexicon knows
TokensText(n) == Join([i \in 1 .. n |-> <<"g", "o">>])

TranslateTexts ==
    { <<>>, <<" ">>, <<"g", "o">>, <<" ", "G", "o">>, <<"n", "o", " ", "g", "o">>,
      <<"z", "z">>, <<"g", "o", " ", "z", "z">>,
      TokensText(LongTextTokens - 1), TokensText(LongTextTokens) }

TranslateFroms == {"auto", "en", "fr"}

TranslateTos == {"es", "xx"}

TranslateArrives ==
    /\ calls < MaxCalls
    /\ calls' = calls + 1
    /\ \E text \in TranslateTexts, from \in TranslateFroms, to \in TranslateTos,
          bypassCache \in BOOLEAN :
          Translate(1, text, from, to, bypassCache)

TranslateNext ==
    \/ TranslateArrives
    \/ \E o \in {"ok", "throws"} : CacheGet(1, o)
    \/ \E o \in AiOutcomes : AiRun(1, o)
    \/ \E o \in {"ok", "throws"} : CachePut(1, o)
    \/ Return(1)

TranslateSpec == SeqInit /\ [][TranslateNext]_vars

(***************************************************************************)
(* POST /translate/batch (src/src/index.ts)                                *)
(***************************************************************************)
\* texts.length > 50 is refused
BatchLimit == 50

\* a body whose `texts` is missing or is not an array
NoTexts == << <<Null>> >>

\* the result of one item
BatchResult(text, translated, sourceLanguage, to, translationSource) ==
    [original |-> text, translated |-> translated, from_language |-> sourceLanguage,
     to_language |-> to, source |-> translationSource, cached |-> FALSE]

\* if (dictResult && dictResult.translated !== trimmedText)
SingleWordFromDictionary(trimmedText, to) ==
    /\ Resolves(trimmedText, to)
    /\ TranslateWord(trimmedText, to).translated # trimmedText

\* texts.map(async (text) => ...): every item runs up to its first await, the
\* cache read
RECURSIVE SpawnTexts(_, _, _, _)
SpawnTexts(tasks, p, texts, n) ==
    IF n > Len(texts) THEN tasks
    ELSE LET u == LowestIdle(tasks)
             rq == tasks[p].req
             trimmedText == ToLowerCase(Trim(texts[n]))
         IN  SpawnTexts(
                 [tasks EXCEPT
                     ![u] = [IdleTask EXCEPT
                               !.op = "batch_item", !.pc = "item_cache_get", !.parent = p,
                               !.req = [NoReq EXCEPT
                                          !.text = texts[n], !.from = rq.from, !.to = rq.to,
                                          !.item = n,
                                          !.cacheKey = TranslationCacheKey(rq.from, rq.to,
                                                                           trimmedText)]],
                     ![p].batch.running = @ + 1],
                 p, texts, n + 1)

\* the request arrives: validation, sourceLanguage, and the items start
TranslateBatch(t, texts, to, from) ==
    LET sourceLanguage == IF from = "auto" THEN "en" ELSE from
        refused(message) ==
            [IdleTask EXCEPT !.op = "batch", !.pc = "done", !.req.status = 400,
                             !.req.response = [error |-> message]]
        started == [IdleTask EXCEPT
                      !.op = "batch", !.pc = "batch_wait", !.req.from = sourceLanguage,
                      !.req.to = to,
                      !.batch.results = [i \in 1 .. Len(texts) |-> <<>>]]
    IN  /\ \A u \in Tasks : task[u].op = "idle"
        /\ task' =
             IF texts = NoTexts \/ to = ""
             THEN [task EXCEPT ![t] = refused("texts array and to language required")]
             ELSE IF Len(texts) > BatchLimit
                  THEN [task EXCEPT ![t] = refused("Maximum 50 texts per batch")]
                  ELSE IF texts = <<>>
                       THEN [task EXCEPT ![t] =
                               [started EXCEPT !.pc = "done", !.req.status = 200,
                                               !.req.response = [translations |-> <<>>,
                                                                 count |-> 0]]]
                       ELSE SpawnTexts([task EXCEPT ![t] = started], t, texts, 1)
        /\ UNCHANGED <<kv, cleared, cache, version>>

\* an item has returned its result: its slot is freed, and once every item has
\* returned Promise.all resolves and the request is answered
ItemReturned(tasks, u, result) ==
    LET p == tasks[u].parent
        freed == [tasks EXCEPT ![u] = IdleTask]
        results == [tasks[p].batch.results EXCEPT ![tasks[u].req.item] = result]
    IN  IF tasks[p].op # "batch" \/ tasks[p].pc # "batch_wait" THEN freed
        ELSE IF tasks[p].batch.running > 1
             THEN [freed EXCEPT ![p].batch.results = results, ![p].batch.running = @ - 1]
             ELSE [freed EXCEPT ![p].batch.results = results, ![p].batch.running = 0,
                                ![p].pc = "done", ![p].req.status = 200,
                                ![p].req.response = [translations |-> results,
                                                     count |-> Len(results)]]

\* an item has thrown: Promise.all rejects at once and the request is answered
\* by the catch, c.json({ error: 'Batch translation failed' }, 500); the other
\* items run on
ItemThrew(tasks, u) ==
    LET p == tasks[u].parent
        freed == [tasks EXCEPT ![u] = IdleTask]
    IN  IF tasks[p].op # "batch" \/ tasks[p].pc # "batch_wait" THEN freed
        ELSE [freed EXCEPT ![p].batch.running = @ - 1,
                           ![p].pc = "done", ![p].req.status = 500,
                           ![p].req.response = [error |-> "Batch translation failed"]]

\* the item's steps after a cache miss, up to its next await: the dictionary
\* for a single word or for all the words, else translateWithCF on the text
ItemAfterCacheMiss(tk) ==
    LET rq == tk.req
        trimmedText == ToLowerCase(Trim(rq.text))
        words == Split(trimmedText)
        dictResults == TranslateWords(words, rq.to)
        withWords == [tk EXCEPT !.req.words = words]
        fromDictionary(translated) ==
            [withWords EXCEPT
                !.req.branch = "dictionary",
                !.req.result = BatchResult(rq.text, translated, rq.from, rq.to, "dictionary"),
                !.pc = "item_cache_put"]
        fromApi == EnterTranslateWithCF([withWords EXCEPT !.req.branch = "api"])
    IN  IF Len(words) = 1
        THEN IF SingleWordFromDictionary(trimmedText, rq.to)
             THEN fromDictionary(TranslateWord(trimmedText, rq.to).translated)
             ELSE fromApi
        ELSE IF Len(dictResults.notFound) = 0
             THEN fromDictionary(Join([i \in 1 .. Len(dictResults.translated) |->
                                          dictResults.translated[i].translated]))
             ELSE fromApi

\* an item's CACHE_KV.get(cacheKey) answers (or throws)
ItemCacheGet(u, outcome) ==
    /\ task[u].op = "batch_item" /\ task[u].pc = "item_cache_get"
    /\ LET rq == task[u].req
           hit == rq.cacheKey \in DOMAIN cache
           read == [task EXCEPT
                      ![u].req.cacheOps = Append(@, [op |-> "get", hit |-> outcome = "ok" /\ hit])]
       IN  task' = IF outcome = "throws" THEN ItemThrew(read, u)
                   ELSE IF hit THEN ItemReturned(read, u, CacheHit(cache[rq.cacheKey].value))
                        ELSE [read EXCEPT ![u] = ItemAfterCacheMiss(read[u])]
    /\ UNCHANGED <<kv, calls, cleared, cache, version>>

\* the item's translation is there: the result is built and goes to the cache write
ItemTranslated(tk, translated) ==
    [tk EXCEPT !.req.result = BatchResult(tk.req.text, translated, tk.req.from, tk.req.to, "api"),
               !.pc = "item_cache_put"]

\* one AI.run of an item's cascade answers
ItemAiRun(u, outcome) ==
    /\ task[u].op = "batch_item" /\ task[u].pc \in {"m2m", "llm_fast", "llm_primary"}
    /\ LET model == task[u].pc
           called == [task EXCEPT ![u].req.ai = Append(@, [model |-> model, outcome |-> outcome])]
           tk == called[u]
       IN  task' =
             CASE model = "m2m" ->
                    IF outcome = "text"
                    THEN [called EXCEPT ![u] = ItemTranslated(tk, M2mText)]
                    ELSE [called EXCEPT ![u].pc = "llm_fast"]
               [] model = "llm_fast" ->
                    IF outcome = "text"
                    THEN [called EXCEPT ![u] = ItemTranslated(tk, Trim(LlmReply))]
                    ELSE [called EXCEPT ![u].pc = "llm_primary"]
               [] model = "llm_primary" ->
                    IF outcome = "text"
                    THEN [called EXCEPT ![u] = ItemTranslated(tk, Trim(LlmReply))]
                    ELSE IF outcome = "empty"
                         THEN [called EXCEPT ![u] = ItemTranslated(tk, tk.req.text)]
                         ELSE ItemThrew(called, u)
    /\ UNCHANGED <<kv, calls, cleared, cache, version>>

\* an item's CACHE_KV.put(cacheKey, JSON.stringify(result), { expirationTtl }),
\* then the item returns its result
ItemCachePut(u, outcome) ==
    /\ task[u].op = "batch_item" /\ task[u].pc = "item_cache_put"
    /\ LET rq == task[u].req
           wrote == [task EXCEPT ![u].req.cacheOps = Append(@, [op |-> "put", hit |-> FALSE])]
       IN  IF outcome = "throws"
           THEN /\ task' = ItemThrew(wrote, u)
                /\ cache' = cache
           ELSE /\ task' = ItemReturned(wrote, u, rq.result)
                /\ cache' = [k \in DOMAIN cache \cup {rq.cacheKey} |->
                               IF k = rq.cacheKey
                               THEN [value |-> rq.result, ttl |-> CacheTtl, build |-> version]
                               ELSE cache[k]]
    /\ UNCHANGED <<kv, calls, cleared, version>>

(***************************************************************************)
(* The batch scenario: one client sends /translate/batch and /translate    *)
(* requests against one cache                                              *)
(***************************************************************************)
BatchTexts ==
    { NoTexts, <<>>,
      << <<"n", "o">> >>, << <<"g", "o">> >>, << <<" ", "G", "o">>, <<"z", "z">> >>,
      << <<"n", "o", " ", "g", "o">>, <<"n", "o">> >>,
      << <<"g", "o", " ", "z", "z">>, <<"g", "o">> >>,
      [i \in 1 .. BatchLimit + 1 |-> <<"g", "o">>] }

\* the texts sent to /translate; hashString gives "Aa" and "BB" the same value
BatchTranslateTexts == { <<"n", "o">>, <<"g", "o">>, <<"A", "a">>, <<"B", "B">> }

BatchTos == {"es", ""}

BatchFroms == {"auto", "fr"}

BatchArrives ==
    /\ calls < MaxCalls
    /\ calls' = calls + 1
    /\ \E texts \in BatchTexts, to \in BatchTos, from \in BatchFroms :
          TranslateBatch(1, texts, to, from)

BatchTranslateArrives ==
    /\ calls < MaxCalls
    /\ calls' = calls + 1
    /\ \E text \in BatchTranslateTexts, from \in {"en", "fr"} :
          Translate(1, text, from, "es", FALSE)

BatchNext ==
    \/ BatchArrives
    \/ BatchTranslateArrives
    \/ \E u \in Tasks, o \in {"ok", "throws"} : ItemCacheGet(u, o)
    \/ \E u \in Tasks, o \in AiOutcomes : ItemAiRun(u, o)
    \/ \E u \in Tasks, o \in {"ok", "throws"} : ItemCachePut(u, o)
    \/ \E o \in {"ok", "throws"} : CacheGet(1, o)
    \/ \E o \in AiOutcomes : AiRun(1, o)
    \/ \E o \in {"ok", "throws"} : CachePut(1, o)
    \/ Return(1)

BatchSpec == SeqInit /\ [][BatchNext]_vars

(***************************************************************************)
(* The etymology pipeline: getFullEtymology (src/src/lib/etymology.ts),    *)
(* as POST /etymology calls it, with CACHE_KV and the AI binding.  The     *)
(* request's locals are kept in req: text is normalizedWord, from is the   *)
(* language, tiers the tiers consulted, ai the outcomes of the fetch and   *)
(* of the AI.run calls.  Definitions and pronunciations are left out of    *)
(* the result.                                                             *)
(***************************************************************************)
\* no etymology: the null of getEtymology
NoEtymology == <<>>

\* an embedded lookup that never finds an etymology
GetEtymologyNever(word) == NoEtymology

\* getEtymology(word) of dictionary.ts: entry?.etymology || null; the model's
\* entries that have an etymology all have the origin "Old English"
GetEtymology(word) ==
    IF HasEtymology(word) THEN [origin |-> "Old English"] ELSE NoEtymology

\* the etymology texts Wiktionary answers with in the model
EtymologyTexts == {"From Latin ire.", "Of obscure descent."}

\* parseEtymologyText on those texts: "From Latin" matches the first language
\* pattern, the other text matches no pattern
ParseEtymologyText(etymologyText) ==
    IF etymologyText = "From Latin ire."
    THEN [origin |-> "Latin"]
    ELSE [origin |-> "Unknown"]

\* the object the AI's JSON parses to in the model
AiEtymology == [origin |-> "Greek"]

\* a TTL of one day
EtymologyTtlOneDay == 24 * 3600

\* expirationTtl: 604800, 7 days
EtymologyTtl == 604800

\* `etym:${language}:${normalizedWord}`
EtymologyCacheKey(language, normalizedWord) == <<"etym", language, normalizedWord>>

\* a FullEtymologyResult
EtymologyResult(word, language, etymology, source) ==
    [word |-> word, language |-> language, etymology |-> etymology,
     source |-> source, cached |-> FALSE]

\* step 5: the minimal result
UnknownEtymology(word, language) ==
    EtymologyResult(word, language, [origin |-> "Unknown"], "dictionary")

\* getFullEtymology has returned and /etymology answers with c.json(etymologyData)
EtymologyReturns(tk, result) ==
    [tk EXCEPT !.pc = "done", !.req.status = 200, !.req.response = result]

\* a failed cache write that is not caught
EtymologyPutFailedRaising(tk) ==
    [tk EXCEPT !.pc = "done", !.req.status = 500,
               !.req.response = [error |-> "Etymology lookup failed", message |-> "cache"]]

\* kv.put threw: after the Wiktionary tier the error is caught next to the put
\* and the result is returned; after the AI tier it is caught by the catch
\* around the whole tier and step 5 follows
EtymologyPutFailed(tk) ==
    IF tk.req.result.source = "wiktionary"
    THEN EtymologyReturns(tk, tk.req.result)
    ELSE EtymologyReturns(tk, UnknownEtymology(tk.req.text, tk.req.from))

\* the lookup starts: the embedded lexicon, else on to the cache read
GetFullEtymology(t, word, language) ==
    LET normalizedWord == Trim(ToLowerCase(word))
        localEtymology == GetEtymology(normalizedWord)
        tk == [IdleTask EXCEPT
                 !.op = "etymology", !.req.text = normalizedWord, !.req.from = language,
                 !.req.tiers = <<"dictionary">>]
    IN  /\ task[t].op = "idle"
        /\ task' = [task EXCEPT ![t] =
                      IF localEtymology # NoEtymology
                      THEN EtymologyReturns(tk, EtymologyResult(normalizedWord, language,
                                                                localEtymology, "dictionary"))
                      ELSE [tk EXCEPT
                              !.pc = "ety_cache_get",
                              !.req.cacheKey = EtymologyCacheKey(language, normalizedWord),
                              !.req.tiers = Append(@, "cache")]]
        /\ UNCHANGED <<kv, cleared, cache, version>>

\* step 2: kv.get(cacheKey) answers or throws; a throw is caught and the
\* lookup goes on to Wiktionary
EtymologyCacheGet(t, outcome) ==
    /\ task[t].op = "etymology" /\ task[t].pc = "ety_cache_get"
    /\ LET rq == task[t].req
           hit == outcome = "ok" /\ rq.cacheKey \in DOMAIN cache
           read == [task[t] EXCEPT
                      !.req.cacheOps =
                          Append(@, [op |-> IF outcome = "ok" THEN "get" ELSE "get_failed",
                                     hit |-> hit])]
       IN  task' = [task EXCEPT ![t] =
                IF hit THEN EtymologyReturns(read, CacheHit(cache[rq.cacheKey].value))
                ELSE [read EXCEPT !.pc = "ety_fetch",
                                  !.req.tiers = Append(@, "wiktionary")]]
    /\ UNCHANGED <<kv, calls, cleared, cache, version>>

\* what fetchFromWiktionary can meet: an entry with one of the etymology
\* texts, an entry without etymology, 404, another status, a thrown error
FetchOutcomes == EtymologyTexts \cup {"no etymology", "404", "503", "throws"}

\* step 3: fetchFromWiktionary answers; only an entry with an etymology is a result
FetchFromWiktionary(t, outcome) ==
    /\ task[t].op = "etymology" /\ task[t].pc = "ety_fetch"
    /\ LET rq == task[t].req
           fetched == [task[t] EXCEPT
                         !.req.ai = Append(@, [model |-> "wiktionary", outcome |-> outcome])]
       IN  task' = [task EXCEPT ![t] =
                IF outcome \in EtymologyTexts
                THEN [fetched EXCEPT
                        !.req.result = EtymologyResult(rq.text, rq.from,
                                                       ParseEtymologyText(outcome),
                                                       "wiktionary"),
                        !.pc = "ety_cache_put"]
                ELSE [fetched EXCEPT !.pc = "ety_ai_fast",
                                     !.req.tiers = Append(@, "ai")]]
    /\ UNCHANGED <<kv, calls, cleared, cache, version>>

\* what an AI.run asked for JSON can give: JSON of an object, the JSON `null`,
\* no response, text that is not JSON, a thrown error
JsonOutcomes == {"json", "null", "empty", "malformed", "throws"}

\* step 4: one AI.run of fetchEtymologyFromCFAI answers: the fast model, then
\* the primary one
EtymologyAiRun(t, outcome) ==
    /\ task[t].op = "etymology" /\ task[t].pc \in {"ety_ai_fast", "ety_ai_primary"}
    /\ LET rq == task[t].req
           model == IF task[t].pc = "ety_ai_fast" THEN "llm_fast" ELSE "llm_primary"
           called == [task[t] EXCEPT
                        !.req.ai = Append(@, [model |-> model, outcome |-> outcome])]
           nothing == EtymologyReturns(called, UnknownEtymology(rq.text, rq.from))
       IN  task' = [task EXCEPT ![t] =
                IF outcome = "json"
                THEN [called EXCEPT
                        !.req.result = EtymologyResult(rq.text, rq.from, AiEtymology, "api"),
                        !.pc = "ety_cache_put"]
                ELSE IF outcome = "null" THEN nothing
                     ELSE IF model = "llm_fast" THEN [called EXCEPT !.pc = "ety_ai_primary"]
                          ELSE nothing]
    /\ UNCHANGED <<kv, calls, cleared, cache, version>>

\* kv.put(cacheKey, JSON.stringify(result), { expirationTtl: 604800 }), then
\* the result is returned
EtymologyCachePut(t, outcome) ==
    /\ task[t].op = "etymology" /\ task[t].pc = "ety_cache_put"
    /\ LET rq == task[t].req
           wrote == [task[t] EXCEPT
                       !.req.cacheOps =
                           Append(@, [op |-> IF outcome = "ok" THEN "put" ELSE "put_failed",
                                      hit |-> FALSE])]
       IN  IF outcome = "throws"
           THEN /\ task' = [task EXCEPT ![t] = EtymologyPutFailed(wrote)]
                /\ cache' = cache
           ELSE /\ task' = [task EXCEPT ![t] = EtymologyReturns(wrote, rq.result)]
                /\ cache' = [k \in DOMAIN cache \cup {rq.cacheKey} |->
                               IF k = rq.cacheKey
                               THEN [value |-> rq.result, ttl |-> EtymologyTtl,
                                     build |-> version]
                               ELSE cache[k]]
    /\ UNCHANGED <<kv, calls, cleared, version>>

\* POST /etymology, catch (err):
\* c.json({ error: 'Etymology lookup failed', message: err.message }, 500)
EtymologyFailed(message) == [error |-> "Etymology lookup failed", message |-> message]

\* POST /etymology with a body that c.req.json() rejects: the route's catch answers
EtymologyBodyRejected(t, message) ==
    /\ task[t].op = "idle"
    /\ task' = [task EXCEPT ![t] =
                  [IdleTask EXCEPT !.op = "etymology", !.pc = "done", !.req.status = 500,
                                   !.req.response = EtymologyFailed(message)]]
    /\ UNCHANGED <<kv, cleared, cache, version>>

(***************************************************************************)
(* The etymology scenario: lookups one after another against one cache     *)
(***************************************************************************)
EtymologyWords ==
    { <<"h", "e", "l", "l", "o">>, <<" ", "G", "o">>, <<"h", "e">>, <<"z", "z">>, <<"Z", "z">> }

EtymologyLanguages == {"en", "fr"}

EtymologyArrives ==
    /\ calls < MaxCalls
    /\ calls' = calls + 1
    /\ \E word \in EtymologyWords, language \in EtymologyLanguages :
          GetFullEtymology(1, word, language)

EtymologyNext ==
    \/ EtymologyArrives
    \/ \E o \in {"ok", "throws"} : EtymologyCacheGet(1, o)
    \/ \E o \in FetchOutcomes : FetchFromWiktionary(1, o)
    \/ \E o \in JsonOutcomes : EtymologyAiRun(1, o)
    \/ \E o \in {"ok", "throws"} : EtymologyCachePut(1, o)
    \/ Return(1)

EtymologySpec == SeqInit /\ [][EtymologyNext]_vars

(***************************************************************************)
(* POST /conjugate (src/src/index.ts).  The request's locals are kept in   *)
(* req: text is the verb, from the language, words the tenses.             *)
(***************************************************************************)
\* tenses = ['present', 'past', 'future'] where the body names none
DefaultTenses ==
    << <<"p", "r", "e", "s", "e", "n", "t">>, <<"p", "a", "s", "t">>,
       <<"f", "u", "t", "u", "r", "e">> >>

\* tenses.join('-')
RECURSIVE JoinTenses(_)
JoinTenses(tenses) ==
    IF tenses = <<>> THEN <<>>
    ELSE IF Len(tenses) = 1 THEN tenses[1]
         ELSE tenses[1] \o <<"-">> \o JoinTenses(Tail(tenses))

\* `conj:${language}:${hashString(verb)}:${tenses.join('-')}`
ConjugationCacheKey(language, verb, tenses) ==
    <<"conj", language, HashString(verb), JoinTenses(tenses)>>

\* { verb, language, ...conjugationData, cached: false }, the AI's object
\* being kept as one field
ConjugationResponse(verb, language) ==
    [verb |-> verb, language |-> language, conjugations |-> "table", cached |-> FALSE]

\* catch (err): c.json({ error: 'Conjugation failed', message: err.message }, 500)
ConjugateFailed(tk, message) ==
    [tk EXCEPT !.pc = "done", !.req.status = 500,
               !.req.response = [error |-> "Conjugation failed", message |-> message]]

\* the request arrives: validation, the cache key, and the cache read is issued
Conjugate(t, verb, language, tenses) ==
    LET tk == [IdleTask EXCEPT !.op = "conjugate", !.req.text = verb,
                               !.req.from = language, !.req.words = tenses]
    IN  /\ task[t].op = "idle"
        /\ task' = [task EXCEPT ![t] =
                      IF verb = <<>> \/ language = ""
                      THEN [IdleTask EXCEPT
                              !.op = "conjugate", !.pc = "done", !.req.status = 400,
                              !.req.response = [error |-> "verb and language required"]]
                      ELSE [tk EXCEPT
                              !.pc = "conj_cache_get",
                              !.req.cacheKey = ConjugationCacheKey(language, verb, tenses)]]
        /\ UNCHANGED <<kv, cleared, cache, version>>

\* CACHE_KV.get(cacheKey) answers (or throws)
ConjugateCacheGet(t, outcome) ==
    /\ task[t].op = "conjugate" /\ task[t].pc = "conj_cache_get"
    /\ LET rq == task[t].req
           hit == outcome = "ok" /\ rq.cacheKey \in DOMAIN cache
           read == [task[t] EXCEPT
                      !.req.cacheOps =
                          Append(@, [op |-> IF outcome = "ok" THEN "get" ELSE "get_failed",
                                     hit |-> hit])]
       IN  task' = [task EXCEPT ![t] =
                IF outcome = "throws" THEN ConjugateFailed(read, "cache")
                ELSE IF hit
                     THEN [read EXCEPT !.pc = "done", !.req.status = 200,
                                       !.req.response = CacheHit(cache[rq.cacheKey].value)]
                     ELSE [read EXCEPT !.pc = "conj_ai_fast"]]
    /\ UNCHANGED <<kv, calls, cleared, cache, version>>

\* one AI.run of callCFAIForJSON answers: the fast model, then the primary
\* one; without data the request is answered 500
CallCFAIForJSON(t, outcome) ==
    /\ task[t].op = "conjugate" /\ task[t].pc \in {"conj_ai_fast", "conj_ai_primary"}
    /\ LET rq == task[t].req
           model == IF task[t].pc = "conj_ai_fast" THEN "llm_fast" ELSE "llm_primary"
           called == [task[t] EXCEPT
                        !.req.ai = Append(@, [model |-> model, outcome |-> outcome])]
           nothing == [called EXCEPT
                         !.pc = "done", !.req.status = 500,
                         !.req.response = [verb |-> rq.text, language |-> rq.from,
                                           error |-> "Failed to generate conjugation data",
                                           cached |-> FALSE]]
       IN  task' = [task EXCEPT ![t] =
                IF outcome = "json"
                THEN [called EXCEPT !.req.result = ConjugationResponse(rq.text, rq.from),
                                    !.pc = "conj_cache_put"]
                ELSE IF outcome = "null" THEN nothing
                     ELSE IF model = "llm_fast" THEN [called EXCEPT !.pc = "conj_ai_primary"]
                          ELSE nothing]
    /\ UNCHANGED <<kv, calls, cleared, cache, version>>

\* CACHE_KV.put(cacheKey, JSON.stringify(responseData), { expirationTtl: 604800 }),
\* then the response
ConjugateCachePut(t, outcome) ==
    /\ task[t].op = "conjugate" /\ task[t].pc = "conj_cache_put"
    /\ LET rq == task[t].req
           wrote == [task[t] EXCEPT
                       !.req.cacheOps =
                           Append(@, [op |-> IF outcome = "ok" THEN "put" ELSE "put_failed",
                                      hit |-> FALSE])]
       IN  IF outcome = "throws"
           THEN /\ task' = [task EXCEPT ![t] = ConjugateFailed(wrote, "cache")]
                /\ cache' = cache
           ELSE /\ task' = [task EXCEPT ![t] =
                              [wrote EXCEPT !.pc = "done", !.req.status = 200,
                                            !.req.response = rq.result]]
                /\ cache' = [k \in DOMAIN cache \cup {rq.cacheKey} |->
                               IF k = rq.cacheKey
                               THEN [value |-> rq.result, ttl |-> EtymologyTtl,
                                     build |-> version]
                               ELSE cache[k]]
    /\ UNCHANGED <<kv, calls, cleared, version>>

(***************************************************************************)
(* The version scenario: requests of the four kinds that read the cache,   *)
(* one after another, and between two of them a build with the next        *)
(* CACHE_VERSION is deployed                                               *)
(***************************************************************************)
\* the token after the bump
NextVersion == "v3"

\* CACHE_VERSION is incremented and the build is deployed, between two requests
BumpVersion ==
    /\ version = CACHE_VERSION
    /\ \A u \in Tasks : task[u].op = "idle"
    /\ version' = NextVersion
    /\ UNCHANGED <<kv, task, calls, cleared, cache>>

VersionTranslateArrives ==
    /\ calls < MaxCalls
    /\ calls' = calls + 1
    /\ \E text \in { <<"g", "o">>, <<"z", "z">> }, to \in TranslateTos :
          Translate(1, text, "en", to, FALSE)

VersionBatchArrives ==
    /\ calls < MaxCalls
    /\ calls' = calls + 1
    /\ \E texts \in { << <<"g", "o">> >>, << <<"z", "z">>, <<"g", "o">> >> } :
          TranslateBatch(1, texts, "es", "auto")

VersionEtymologyArrives ==
    /\ calls < MaxCalls
    /\ calls' = calls + 1
    /\ \E word \in { <<"z", "z">>, <<"g", "o">> } : GetFullEtymology(1, word, "en")

VersionConjugateArrives ==
    /\ calls < MaxCalls
    /\ calls' = calls + 1
    /\ \E verb \in { <<"g", "o">>, <<>> }, tenses \in { DefaultTenses, << <<"p", "a", "s", "t">> >> } :
          Conjugate(1, verb, "es", tenses)

VersionNext ==
    \/ VersionTranslateArrives
    \/ VersionBatchArrives
    \/ VersionEtymologyArrives
    \/ VersionConjugateArrives
    \/ BumpVersion
    \/ \E o \in {"ok", "throws"} : CacheGet(1, o)
    \/ \E o \in AiOutcomes : AiRun(1, o)
    \/ \E o \in {"ok", "throws"} : CachePut(1, o)
    \/ \E u \in Tasks, o \in {"ok", "throws"} : ItemCacheGet(u, o)
    \/ \E u \in Tasks, o \in AiOutcomes : ItemAiRun(u, o)
    \/ \E u \in Tasks, o \in {"ok", "throws"} : ItemCachePut(u, o)
    \/ \E o \in {"ok", "throws"} : EtymologyCacheGet(1, o)
    \/ \E o \in FetchOutcomes : FetchFromWiktionary(1, o)
    \/ \E o \in JsonOutcomes : EtymologyAiRun(1, o)
    \/ \E o \in {"ok", "throws"} : EtymologyCachePut(1, o)
    \/ \E o \in {"ok", "throws"} : ConjugateCacheGet(1, o)
    \/ \E o \in JsonOutcomes : CallCFAIForJSON(1, o)
    \/ \E o \in {"ok", "throws"} : ConjugateCachePut(1, o)
    \/ Return(1)

VersionSpec == SeqInit /\ [][VersionNext]_vars

(***************************************************************************)
(* The failure scenario: one client on a ledger whose contribution bar is  *)
(* one word stores a word and contributes it, translates, and looks up an  *)
(* etymology; the cache, the models, the request body and the hosting API  *)
(* fail with one of the error texts                                        *)
(***************************************************************************)
FailureInit ==
    /\ kv = [EmptyStore EXCEPT !.config = <<[DEFAULT_CONFIG EXCEPT !.prThreshold = 1]>>]
    /\ task = [t \in Tasks |-> IdleTask]
    /\ calls = 0
    /\ cleared = FALSE
    /\ cache = EmptyCache
    /\ version = CACHE_VERSION

FailureStoreArrives ==
    /\ calls < MaxCalls
    /\ calls' = calls + 1
    /\ StoreLearnedWord(1, <<"a", "b">>, [l \in Langs |-> IF l = "es" THEN "uno" ELSE Absent],
                        NoConf, NoContext)

FailureTranslateArrives ==
    /\ calls < MaxCalls
    /\ calls' = calls + 1
    /\ \E text \in {<<"g", "o">>, <<"z", "z">>}, to \in TranslateTos :
          Translate(1, text, "en", to, FALSE)

FailureEtymologyArrives ==
    /\ calls < MaxCalls
    /\ calls' = calls + 1
    /\ \E e \in ErrorTexts : EtymologyBodyRejected(1, e)

FailureNext ==
    \/ FailureStoreArrives
    \/ FailureTranslateArrives
    \/ FailureEtymologyArrives
    \/ StorePutNew(1)
    \/ StoreGetStats(1)
    \/ StoreGetConfig(1)
    \/ AddToPendingQueueGet(1)
    \/ AddToPendingQueuePut(1)
    \/ UpdateStatsGet(1)
    \/ UpdateStatsPut(1)
    \/ TriggerContribution(1, TRUE)
    \/ GetPendingWordsQueue(1)
    \/ GetPendingWordsWord(1)
    \/ \E o \in {"ok", "not_ok", "throws", "no_marker"}, n \in PRNumbers, d \in ErrorTexts :
          ApiCall(1, o, n, d)
    \/ ClearPendingQueue(1)
    \/ \E o \in {"ok"} \cup ErrorTexts : CacheGet(1, o)
    \/ \E o \in {"text", "empty"} \cup ErrorTexts : AiRun(1, o)
    \/ \E o \in {"ok"} \cup ErrorTexts : CachePut(1, o)
    \/ Return(1)

FailureSpec == FailureInit /\ [][FailureNext]_vars

(***************************************************************************)
(* Markup cleaning (src/src/lib/etymology.ts): removeHtmlTags and          *)
(* cleanWikiMarkup.  A request's locals are kept in req: text is the       *)
(* argument, result the text as it stands (`current`, `cleaned`), item the *)
(* passes of the do-while loop made so far, response the text returned.    *)
(***************************************************************************)
\* the first position from `from` on whose character is one of chars, else 0
FirstOf(s, from, chars) ==
    LET at == {i \in from .. Len(s) : s[i] \in chars}
    IN  IF at = {} THEN 0 ELSE CHOOSE i \in at : \A j \in at : i <= j

NoMatch == [end |-> 0, kept |-> <<>>]

\* the match of a pattern that starts at position i, if there is one: where it
\* ends and what replaces it.
\*   "pipe"     /\[\[([^\]|]+)\|([^\]]+)\]\]/  replaced by $2
\*   "link"     /\[\[([^\]]+)\]\]/             replaced by $1
\*   "template" /\{\{[^}]+\}\}/                 replaced by ''
\*   "tag"      /<[^>]+>/                       replaced by ''
\* Each class runs up to the first character it excludes, and the pattern goes
\* on with exactly that character, so there is one way to match at most.
Match(s, i, kind) ==
    LET open == IF kind = "template" THEN "{" ELSE "["
        shut == IF kind = "template" THEN "}" ELSE "]"
        doubled == i + 1 <= Len(s) /\ s[i] = open /\ s[i + 1] = open
        bar == FirstOf(s, i + 2, {"]", "|"})
        from == IF kind = "pipe" THEN bar + 1 ELSE i + 2
        close == FirstOf(s, from, {shut})
        closed == close >= from + 1 /\ close + 1 <= Len(s) /\ s[close + 1] = shut
        gt == FirstOf(s, i + 1, {">"})
    IN  CASE kind = "tag" ->
                IF s[i] = "<" /\ gt >= i + 2 THEN [end |-> gt, kept |-> <<>>] ELSE NoMatch
          [] kind = "pipe" ->
                IF doubled /\ bar >= i + 3 /\ s[bar] = "|" /\ closed
                THEN [end |-> close + 1, kept |-> SubSeq(s, from, close - 1)] ELSE NoMatch
          [] kind = "link" ->
                IF doubled /\ closed
                THEN [end |-> close + 1, kept |-> SubSeq(s, from, close - 1)] ELSE NoMatch
          [] kind = "template" ->
                IF doubled /\ closed THEN [end |-> close + 1, kept |-> <<>>] ELSE NoMatch

\* s.replace(/pattern/g, replacement) from position i on: the matches are taken
\* from left to right and do not overlap
RECURSIVE ReplaceFrom(_, _, _)
ReplaceFrom(s, i, kind) ==
    IF i > Len(s) THEN <<>>
    ELSE LET m == Match(s, i, kind)
         IN  IF m.end # 0 THEN m.kept \o ReplaceFrom(s, m.end + 1, kind)
             ELSE <<s[i]>> \o ReplaceFrom(s, i + 1, kind)

ReplaceAll(s, kind) == ReplaceFrom(s, 1, kind)

\* a last step that leaves the angle brackets in
KeepBrackets(s) == s

\* .replace(/[<>]/g, '')
RemoveBrackets(s) == SelectSeq(s, LAMBDA c : c \notin {"<", ">"})

\* .replace(/\s+/g, ' ')
RECURSIVE CollapseSpaces(_)
CollapseSpaces(s) ==
    IF s = <<>> THEN <<>>
    ELSE IF IsSpace(Head(s))
         THEN <<" ">> \o CollapseSpaces(TrimStart(s))
         ELSE <<Head(s)>> \o CollapseSpaces(Tail(s))

\* removeHtmlTags(text) is called: '' for an empty text, else the loop is entered
RemoveHtmlTags(t, text) ==
    /\ task[t].op = "idle"
    /\ task' = [task EXCEPT ![t] =
                  [IdleTask EXCEPT !.op = "strip", !.req.text = text, !.req.result = text,
                                   !.pc = IF text = <<>> THEN "done" ELSE "strip_pass"]]
    /\ UNCHANGED <<kv, cleared, cache, version>>

\* cleanWikiMarkup(text) is called: '' for an empty text, else the links and
\* the templates are replaced and removeHtmlTags is entered
CleanWikiMarkup(t, text) ==
    LET cleaned == ReplaceAll(ReplaceAll(ReplaceAll(text, "pipe"), "link"), "template")
    IN  /\ task[t].op = "idle"
        /\ task' = [task EXCEPT ![t] =
                      [IdleTask EXCEPT
                          !.op = "clean", !.req.text = text,
                          !.req.result = IF text = <<>> THEN <<>> ELSE cleaned,
                          !.pc = IF text = <<>> \/ cleaned = <<>> THEN
                                    (IF text = <<>> THEN "done" ELSE "clean_finish")
                                 ELSE "strip_pass"]]
        /\ UNCHANGED <<kv, cleared, cache, version>>

\* one pass of the do-while loop: previous = current; current =
\* current.replace(/<[^>]+>/g, ''); the loop is left when nothing changed
StripPass(t) ==
    /\ task[t].op \in {"strip", "clean"} /\ task[t].pc = "strip_pass"
    /\ LET previous == task[t].req.result
           current == ReplaceAll(previous, "tag")
       IN  task' = [task EXCEPT
                      ![t].req.result = current, ![t].req.item = @ + 1,
                      ![t].req.response = IF task[t].op = "strip" /\ current = previous
                                          THEN current ELSE @,
                      ![t].pc = IF current # previous THEN "strip_pass"
                                ELSE IF task[t].op = "strip" THEN "done"
                                     ELSE "clean_finish"]
    /\ UNCHANGED <<kv, calls, cleared, cache, version>>

\* the end of cleanWikiMarkup: the brackets that are left are removed, the
\* whitespace is collapsed, the text is trimmed and returned
CleanFinish(t) ==
    /\ task[t].op = "clean" /\ task[t].pc = "clean_finish"
    /\ task' = [task EXCEPT
                  ![t].req.response = Trim(CollapseSpaces(RemoveBrackets(task[t].req.result))),
                  ![t].pc = "done"]
    /\ UNCHANGED <<kv, calls, cleared, cache, version>>

(***************************************************************************)
(* The markup scenario: every text of up to MaxPieces pieces is cleaned    *)
(***************************************************************************)
MaxPieces == 4

MarkupPieces ==
    { <<"<">>, <<">">>, <<"a">>, <<" ">>, <<"{", "{", "a", "}", "}">>,
      <<"[", "[", "a", "|">>, <<"[", "[">>, <<"]", "]">>, <<"<", "a">> }

RECURSIVE MarkupTextsOf(_)
MarkupTextsOf(n) ==
    IF n = 0 THEN { <<>> }
    ELSE LET shorter == MarkupTextsOf(n - 1)
         IN  shorter \cup { piece \o text : piece \in MarkupPieces, text \in shorter }

MarkupTexts == MarkupTextsOf(MaxPieces)

MarkupStripArrives ==
    /\ calls < MaxCalls
    /\ calls' = calls + 1
    /\ \E text \in MarkupTexts : RemoveHtmlTags(1, text)

MarkupCleanArrives ==
    /\ calls < MaxCalls
    /\ calls' = calls + 1
    /\ \E text \in MarkupTexts : CleanWikiMarkup(1, text)

MarkupNext ==
    \/ MarkupStripArrives
    \/ MarkupCleanArrives
    \/ StripPass(1)
    \/ CleanFinish(1)
    \/ Return(1)

MarkupSpec == SeqInit /\ [][MarkupNext]_vars

(***************************************************************************)
(* Properties                                                              *)
(***************************************************************************)
\* the trigger condition as section 4.3 of the specification writes it
TriggerCondition(config, stats) ==
    config.autoTrigger /\ stats.pendingCount >= config.prThreshold /\ ~stats.isProcessing

StoreReturned(t) == task[t].op = "store" /\ task[t].pc = "done"

Created(t) == task[t].existing = NoRec

\* a contribution between its start and its end
InFlight(t) == task[t].op = "contrib" /\ task[t].pc \notin {"done", "failed"}

ApiStepNames == { ApiSteps[i] : i \in 1 .. Len(ApiSteps) }

NoDuplicates(queue) ==
    \A i, j \in 1 .. Len(queue) : queue[i] = queue[j] => i = j

\* C1 as claimed: whenever a storeLearnedWord call returns, creating or merging,
\* its shouldTriggerPR equals the trigger condition on the config and stats that
\* are in the store at that moment.
C1_ReturnMatchesStore ==
    [][\A t \in Tasks :
          (task[t].op = "store" /\ task[t].pc # "done" /\ task'[t].pc = "done")
          => (task'[t].ret.shouldTriggerPR
                <=> TriggerCondition(GetConfig(kv'), GetStats(kv')))]_vars

\* C1 as amended: a call that creates a record returns the trigger condition on
\* the stats and config it read after enqueuing the word, with that stats'
\* pendingCount; a call that merges returns shouldTriggerPR false whatever the
\* stats are.
C1_ReturnMatchesReads ==
    \A t \in Tasks :
        StoreReturned(t) =>
            /\ task[t].ret.stored
            /\ task[t].ret.pendingCount = task[t].stats.pendingCount
            /\ IF Created(t)
               THEN task[t].ret.shouldTriggerPR
                        <=> TriggerCondition(task[t].config, task[t].stats)
               ELSE ~task[t].ret.shouldTriggerPR

\* a creating call has returned true, and a merging call has returned while the
\* store meets the trigger condition
C1_Witness ==
    \E a, b \in Tasks :
        /\ StoreReturned(a) /\ Created(a) /\ task[a].ret.shouldTriggerPR
        /\ StoreReturned(b) /\ ~Created(b)
        /\ TriggerCondition(GetConfig(kv), GetStats(kv))

\* C2: nothing but the isProcessing value a request read guards the start of a
\* contribution: every contribution was started from a result that said
\* shouldTriggerPR, computed from a stats read with isProcessing false, so two
\* requests that read before either contribution writes the flag both start one.
C2_StartedFromUnguardedRead ==
    \A t \in Tasks :
        task[t].op = "contrib" =>
            task[t].ret.shouldTriggerPR /\ ~task[t].stats.isProcessing

\* two contributions are in flight, neither has written isProcessing yet
C2_TwoTriggersInFlight ==
    \E a, b \in Tasks :
        /\ a # b /\ InFlight(a) /\ InFlight(b)
        /\ ~task[a].marked /\ ~task[b].marked
        /\ ~GetStats(kv).isProcessing

\* C3 as claimed: once a contribution has failed at a hosting-API step and no
\* other contribution is in flight, isProcessing is false again.
C3_FailureReleasesFlag ==
    \A t \in Tasks :
        (/\ task[t].op = "contrib" /\ task[t].pc = "failed" /\ task[t].api # <<>>
         /\ \A u \in Tasks : ~InFlight(u))
        => ~GetStats(kv).isProcessing

C5_SuccessClearsQueueAndStats ==
    [][\A t \in Tasks :
          /\ (task[t].op = "contrib" /\ task'[t] # task[t]) => kv'.words = kv.words
          /\ (task[t].pc = "clear_queue" /\ task'[t].pc = "stats_get")
             => kv'.queue = <<>>
          /\ (task[t].op = "contrib" /\ task[t].result.success
              /\ task[t].pc = "stats_put" /\ task'[t].pc = "done")
             => /\ GetStats(kv').pendingCount = 0
                /\ GetStats(kv').lastSyncToRepo # NoTime
                /\ GetStats(kv').lastPRNumber = task[t].result.prNumber
                /\ task[t].result.prNumber \in PRNumbers
                /\ ~GetStats(kv').isProcessing]_vars

\* a contribution has succeeded and the store shows all of its effects
C5_Witness ==
    \E t \in Tasks :
        /\ task[t].op = "contrib" /\ task[t].pc = "done" /\ task[t].result.success
        /\ kv.queue = <<>>
        /\ GetStats(kv).pendingCount = 0
        /\ GetStats(kv).lastPRNumber = task[t].result.prNumber
        /\ GetStats(kv).lastSyncToRepo = Now
        /\ ~GetStats(kv).isProcessing
        /\ \E k \in WordKeys : kv.words[k] # NoRec

\* C6: the Pending Queue never holds a key twice, and the steps of a
\* storeLearnedWord call on a word that is already stored leave the queue as it is.
C6_QueueIsASet ==
    /\ [](NoDuplicates(kv.queue))
    /\ [][\A t \in Tasks :
            (task[t].op = "store" /\ ~Created(t) /\ task'[t] # task[t])
            => kv'.queue = kv.queue]_vars

\* a word already in the queue has been stored once more
C6_Witness ==
    \E t \in Tasks :
        /\ StoreReturned(t) /\ ~Created(t)
        /\ Includes(kv.queue, task[t].key)
        /\ kv.words[task[t].key].seenCount >= 2

\* C7 as claimed: with no clearPendingQueue so far and every request finished,
\* every word that has a record is in the Pending Queue.
C7_CreatedWordsAreQueued ==
    (~cleared /\ \A t \in Tasks : task[t].pc \in {"idle", "done", "failed"})
    => \A k \in WordKeys : kv.words[k] # NoRec => Includes(kv.queue, k)

\* C8: no step removes a learned-word record.
C8_RecordsNeverDeleted ==
    [][\A k \in WordKeys : kv.words[k] # NoRec => kv'.words[k] # NoRec]_vars

\* the queue has been cleared after a contribution and the record is still there
C8_Witness ==
    /\ cleared /\ kv.queue = <<>>
    /\ \E k \in WordKeys : kv.words[k] # NoRec
    /\ \E t \in Tasks : task[t].op = "contrib" /\ task[t].pc = "done"

\* C9: on a fresh ledger with the default configuration, the call that stores
\* the n-th distinct word returns stored, pendingCount n, and shouldTriggerPR
\* false while n < 10 and true at n = 10.
C9_TenthWordTriggers ==
    (StoreReturned(1) /\ Created(1)) =>
        /\ task[1].ret.stored
        /\ task[1].ret.pendingCount = StoredCount
        /\ StoredCount < 10 => ~task[1].ret.shouldTriggerPR
        /\ StoredCount = 10 => task[1].ret.shouldTriggerPR

\* the tenth distinct word has been stored
C9_Witness ==
    /\ StoreReturned(1) /\ Created(1)
    /\ StoredCount = 10 /\ Len(kv.queue) = 10
    /\ task[1].ret = [stored |-> TRUE, shouldTriggerPR |-> TRUE, pendingCount |-> 10]

\* C10 as claimed: a repeat sighting with a confidence c given stores
\* min((existing.confidence + c) / 2, 1), for every c in [0,1].
C10_MergeAveragesIncoming ==
    [][(task[1].op = "store" /\ task[1].pc = "put_updated" /\ task'[1].pc = "merge_stats"
        /\ task[1].conf # NoConf)
       => 2 * kv'.words[task[1].key].confidence
            = Min(task[1].existing.confidence + task[1].conf, 2 * ONE)]_vars

\* C11: every stored confidence is in [0,1], whatever sequence of creations and
\* merges by storeLearnedWord and bulkUploadWords, with incoming confidences
\* from [0,1] (0 and 1 included), produced it.
C11_ConfidenceInUnitInterval ==
    \A k \in WordKeys :
        kv.words[k] # NoRec =>
            kv.words[k].confidence >= 0 /\ kv.words[k].confidence <= ONE

\* a record created with confidence 1 has been merged with an incoming 1 and
\* holds confidence 1 after three sightings
C11_Witness ==
    /\ kv.words[LedgerKey].confidence = ONE
    /\ kv.words[LedgerKey].seenCount = 3
    /\ task[1].op = "store" /\ task[1].pc = "done" /\ ~Created(1)

\* C12: a record is created with seenCount 1; every sequential storeLearnedWord
\* call on the same normalised word adds exactly 1 to seenCount and overlays its
\* translations on the stored ones (its value wins per language, the other
\* languages are kept).
C12_SightingsCountedAndOverlaid ==
    [][/\ (task[1].op = "store" /\ task[1].pc = "put_new" /\ task'[1].pc = "queue_get")
          => kv'.words[task[1].key].seenCount = 1
       /\ (task[1].op = "store" /\ task[1].pc = "put_updated"
           /\ task'[1].pc = "merge_stats")
          => /\ task[1].key = LedgerKey
             /\ kv'.words[LedgerKey].seenCount = kv.words[LedgerKey].seenCount + 1
             /\ \A l \in Langs :
                   kv'.words[LedgerKey].translations[l] =
                       IF task[1].trans[l] # Absent THEN task[1].trans[l]
                       ELSE kv.words[LedgerKey].translations[l]]_vars

\* one creation and three repeats, the last under the other spelling's key, have
\* left seenCount 4, the later value of "es" and the kept value of "fr"
C12_Witness ==
    /\ task[1].op = "store" /\ task[1].pc = "done" /\ ~Created(1)
    /\ kv.words[LedgerKey].seenCount = 4
    /\ kv.words[LedgerKey].source = "ai"
    /\ kv.words[LedgerKey].translations["es"] = "uno"
    /\ kv.words[LedgerKey].translations["fr"] = "un"

\* C13: the contexts window never holds more than 5 entries; a repeat sighting
\* with a context leaves the 4 most recent prior contexts, in their order,
\* followed by the new one; a repeat sighting without a context leaves the
\* window as it was.
C13_ContextWindow ==
    /\ [](\A k \in WordKeys : Len(kv.words[k].contexts) <= 5)
    /\ [][(task[1].op = "store" /\ task[1].pc = "put_updated"
           /\ task'[1].pc = "merge_stats")
          => LET old == kv.words[task[1].key].contexts
                 new == kv'.words[task[1].key].contexts
                 kept == IF Len(old) <= 4 THEN Len(old) ELSE 4
             IN  IF task[1].ctx = NoContext
                 THEN new = old
                 ELSE /\ Len(new) = kept + 1
                      /\ new[Len(new)] = task[1].ctx
                      /\ \A i \in 1 .. kept : new[i] = old[Len(old) - kept + i]]_vars

\* seven sightings, more than five of them with a context: the window is full
\* and its oldest entry has been dropped
C13_Witness ==
    /\ kv.words[CtxKey].seenCount = 7
    /\ kv.words[CtxKey].contexts = <<"c1", "c2", "c2", "c1", "c2">>
    /\ task[1].op = "store" /\ task[1].pc = "done" /\ ~Created(1)

\* the record getLearnedTranslation has looked up
Looked(t) == kv.words[task[t].key]

HasTranslation(t) ==
    Looked(t) # NoRec /\ Looked(t).translations[task[t].lang] # Absent

\* C14 as claimed: the learned translation is returned if and only if the record
\* has one for the language and its confidence reaches the configured
\* minConfidence or its seenCount reaches 3; otherwise null is returned.
C14_BarFollowsConfig ==
    \A t \in Tasks :
        task[t].op = "lookup" =>
            IF /\ HasTranslation(t)
               /\ \/ Looked(t).confidence >= GetConfig(kv).minConfidence
                  \/ Looked(t).seenCount >= 3
            THEN task[t].answer = Looked(t).translations[task[t].lang]
            ELSE task[t].answer = Null

\* C14 as amended: the same with the fixed threshold 0.7 in place of the
\* configured minConfidence, which getLearnedTranslation does not read.
C14_BarIsFixed ==
    \A t \in Tasks :
        task[t].op = "lookup" =>
            IF /\ HasTranslation(t)
               /\ \/ Looked(t).confidence >= Tenths(7)
                  \/ Looked(t).seenCount >= 3
            THEN task[t].answer = Looked(t).translations[task[t].lang]
            ELSE task[t].answer = Null

\* with minConfidence configured as 0.5, a word sighted once with confidence
\* 0.6 is not returned although it has a translation
C14_Witness ==
    \E t \in Tasks :
        /\ task[t].op = "lookup" /\ HasTranslation(t)
        /\ GetConfig(kv).minConfidence = Tenths(5)
        /\ Looked(t).confidence = Tenths(6) /\ Looked(t).seenCount = 1
        /\ task[t].answer = Null

BulkReturned(t) == task[t].op = "bulk" /\ task[t].pc = "done"

\* the result of a rejected upload
BulkRejected(t) ==
    /\ ~task[t].bulk.success /\ task[t].bulk.added = 0
    /\ task[t].bulk.updated = 0 /\ task[t].bulk.skipped = 0
    /\ Len(task[t].bulk.errors) = 1
    /\ task[t].bulk.errors[1].error = "Batch size exceeds tier limit"
    /\ task[t].bulk.errors[1].size = task[t].bulk.size
    /\ ~task[t].ret.shouldTriggerPR

\* C15: an upload under tier small is rejected if and only if it has more than
\* 100 words; a rejected upload returns success false, added 0 and the size
\* error, and the step that rejects it changes nothing in the store; an upload
\* of exactly 100 words is processed, every word of it being counted as added,
\* updated, skipped or failed.
C15_OversizedBatchRejected ==
    /\ [](\A t \in Tasks :
            (BulkReturned(t) /\ task[t].bulk.tier = "small")
            => IF task[t].bulk.size > 100
               THEN BulkRejected(t)
               ELSE /\ task[t].bulk.errors = <<>> <=> task[t].bulk.success
                    /\ \A i \in 1 .. Len(task[t].bulk.errors) :
                          task[t].bulk.errors[i].error = "kv"
                    /\ task[t].bulk.added + task[t].bulk.updated + task[t].bulk.skipped
                          + Len(task[t].bulk.errors) = task[t].bulk.size)
    /\ [][\A t \in Tasks :
            (task[t].op = "idle" /\ task'[t].op = "bulk" /\ task'[t].pc = "done")
            => (kv' = kv /\ \A u \in Tasks \ {t} : task'[u] = task[u])]_vars

\* 101 words under tier small have been rejected on a ledger that an earlier
\* upload had filled: the three records and the queue are as they were
C15_Witness ==
    /\ BulkReturned(1) /\ task[1].bulk.tier = "small" /\ task[1].bulk.size = 101
    /\ BulkRejected(1)
    /\ \A k \in BulkValidKeys : kv.words[k].seenCount = 1
    /\ Len(kv.queue) = 3 /\ GetStats(kv).pendingCount = 3

\* an upload that passed the size check has returned
BulkProcessed(t) ==
    BulkReturned(t) /\ ~ExceedsTier(task[t].bulk.size, task[t].bulk.tier)

FailedWords(t) == { task[t].bulk.errors[i].word : i \in 1 .. Len(task[t].bulk.errors) }

\* C16: when an upload returns, every item whose key-value operation failed has
\* one entry in errors[], every other valid item of the list, in the same
\* sub-batch or in a later one, has its record in the ledger, and every item of
\* the list has been counted exactly once.
C16_ItemFailuresIsolated ==
    \A t \in Tasks :
        BulkProcessed(t) =>
            /\ \A i \in 1 .. Len(task[t].bulk.errors) :
                  /\ task[t].bulk.errors[i] = ItemError(task[t].bulk.errors[i].word)
                  /\ Normalize(task[t].bulk.errors[i].word) \in BulkValidKeys
                  /\ \A j \in 1 .. Len(task[t].bulk.errors) :
                        task[t].bulk.errors[j].word = task[t].bulk.errors[i].word => i = j
            /\ \A n \in {1, 2, 51} :
                  BulkWordAt(n) \notin FailedWords(t)
                  => kv.words[Normalize(BulkWordAt(n))] # NoRec
            /\ task[t].bulk.added + task[t].bulk.updated + task[t].bulk.skipped
                  + Len(task[t].bulk.errors) = task[t].bulk.size
            /\ task[t].bulk.success <=> task[t].bulk.errors = <<>>

\* the first item of the list failed before it wrote anything; the second item,
\* in its sub-batch, and the 51st, in the next sub-batch, were created
C16_Witness ==
    /\ BulkProcessed(1)
    /\ task[1].bulk.errors = <<ItemError(BulkWordAt(1))>>
    /\ ~task[1].bulk.success /\ task[1].bulk.added = 2
    /\ kv.words[Normalize(BulkWordAt(1))] = NoRec
    /\ kv.words[Normalize(BulkWordAt(2))].seenCount = 1
    /\ kv.words[Normalize(BulkWordAt(51))].seenCount = 1

\* C17 as claimed: a bulk item with a confidence given that meets an existing
\* record writes what storeLearnedWord's merge rule writes: translations
\* overlaid, seenCount + 1, lastSeen set, and min((existing + incoming) / 2, 1)
\* as confidence.
C17_BulkMergesLikeStore ==
    [][\A u \in Tasks :
          (/\ task[u].op = "item" /\ task[u].pc = "item_put_updated"
           /\ task'[u] # task[u] /\ task[u].conf \notin {NoConf, 0})
          => /\ kv'.words[task[u].key].seenCount = task[u].existing.seenCount + 1
             /\ kv'.words[task[u].key].translations =
                   MergeTranslations(task[u].existing.translations, task[u].trans)
             /\ kv'.words[task[u].key].lastSeen = task[u].now
             /\ 2 * kv'.words[task[u].key].confidence
                   = Min(task[u].existing.confidence + task[u].conf, 2 * ONE)]_vars

\* the order section 4.4 gives to the requests of a contribution
ExpectedOrder == <<"get_base_ref", "create_branch", "get_file", "update_file", "create_pr">>

\* C18: the requests createDictionaryPR has sent are, in this order, read base
\* ref, create branch, read lexicon file, commit file, open PR, each sent at
\* most once and only after all earlier ones succeeded; after a failed request
\* (non-2xx answer, missing marker or thrown error) the call has returned
\* success false with an error and sends nothing more; it returns success only
\* after all five succeeded.
C18_StepsInOrderUntilFailure ==
    /\ [](\A t \in Tasks :
            task[t].op = "contrib" =>
                /\ Len(task[t].api) <= 5
                /\ \A i \in 1 .. Len(task[t].api) :
                      /\ task[t].api[i].step = ExpectedOrder[i]
                      /\ i < Len(task[t].api) => task[t].api[i].ok
                /\ task[t].pc \in ApiStepNames
                   => /\ \A i \in 1 .. Len(task[t].api) : task[t].api[i].ok
                      /\ task[t].pc = ExpectedOrder[Len(task[t].api) + 1]
                /\ (task[t].api # <<>> /\ ~task[t].api[Len(task[t].api)].ok)
                   => /\ task[t].pc = "failed"
                      /\ ~task[t].result.success /\ task[t].result.error # ""
                /\ task[t].result.success
                   => Len(task[t].api) = 5 /\ task[t].api[5].ok)
    /\ [][\A t \in Tasks :
            (task[t].pc = "failed" /\ task'[t].op = "contrib")
            => task'[t] = task[t]]_vars

\* the commit was refused: the call has failed after four requests and no PR
\* request was sent
C18_Witness ==
    \E t \in Tasks :
        /\ task[t].op = "contrib" /\ task[t].pc = "failed"
        /\ Len(task[t].api) = 4
        /\ task[t].api[4] = [step |-> "update_file", ok |-> FALSE]
        /\ task[t].result = [NoResult EXCEPT !.error = "update_file"]

\* the commit request of a contribution has been sent
CommitSent(t) ==
    task[t].op = "contrib" /\ \E i \in 1 .. Len(task[t].api) : task[t].api[i].step = "update_file"

\* C19 as claimed: every entry of the patch a contribution commits belongs to a
\* word whose confidence reaches minConfidence and whose seenCount reaches 3.
C19_PatchClearsBar ==
    \A t \in Tasks :
        CommitSent(t) =>
            \A i \in 1 .. Len(task[t].patch) :
                /\ task[t].words[i].word = task[t].patch[i].word
                /\ task[t].words[i].confidence >= GetConfig(kv).minConfidence
                /\ task[t].words[i].seenCount >= 3

\* the request read the cache and found an entry
GotHit(rq) == \E i \in 1 .. Len(rq.cacheOps) : rq.cacheOps[i].op = "get" /\ rq.cacheOps[i].hit

CacheRead(rq) == \E i \in 1 .. Len(rq.cacheOps) : rq.cacheOps[i].op = "get"

CacheWritten(rq) == \E i \in 1 .. Len(rq.cacheOps) : rq.cacheOps[i].op = "put"

\* C20: a translate request without bypass whose cache read finds an entry
\* answers with that entry annotated cached=true, and has then produced no
\* result of its own, called no AI model and written nothing to the cache; the
\* read step leaves the cache as it is and ends the request.  A request with
\* bypass never reads the cache.
C20_HitShortCircuits ==
    /\ [](\A t \in Tasks :
            task[t].op = "translate" =>
                /\ task[t].req.bypass => ~CacheRead(task[t].req)
                /\ GotHit(task[t].req)
                   => /\ task[t].pc = "done" /\ task[t].req.status = 200
                      /\ task[t].req.response.cached
                      /\ task[t].req.response
                           = [cache[task[t].req.cacheKey].value EXCEPT !.cached = TRUE]
                      /\ task[t].req.result = <<>> /\ task[t].req.branch = ""
                      /\ task[t].req.ai = <<>>
                      /\ ~CacheWritten(task[t].req))
    /\ [][\A t \in Tasks :
            (/\ task[t].op = "translate" /\ task[t].pc = "cache_get"
             /\ task[t].req.cacheKey \in DOMAIN cache /\ task'[t] # task[t])
            => /\ cache' = cache /\ task'[t].pc = "done"
               /\ task'[t].req.status = 200 <=> GotHit(task'[t].req)]_vars

\* an entry the AI cascade produced for an earlier request has answered this one
C20_Witness ==
    /\ task[1].op = "translate" /\ task[1].pc = "done"
    /\ ~task[1].req.bypass /\ GotHit(task[1].req)
    /\ task[1].req.response.cached /\ task[1].req.response.source = "api"
    /\ task[1].req.response.translated = M2mText
    /\ task[1].req.ai = <<>> /\ Len(task[1].req.cacheOps) = 1

\* the tokens of a request's text, as the handler cuts them
Tokens(rq) == NonEmpty(Split(ToLowerCase(rq.text)))

\* the request has built a result of its own whose source is 'dictionary'
DictionarySourced(rq) == rq.result # <<>> /\ rq.result.source = "dictionary"

\* the request was answered with a result it built itself
AnsweredFresh(t) ==
    /\ task[t].op = "translate" /\ task[t].pc = "done"
    /\ task[t].req.status = 200 /\ ~GotHit(task[t].req)

\* C21: a translate request builds a result with source 'dictionary' only when
\* its text has at most 10 tokens, its source language is 'en' or 'auto' and
\* every token has an entry of the lexicon with a translation for the target
\* language; a text with a token that does not resolve gets no such result; the
\* translated text of the dictionary result is the tokens' translations in the
\* order of the tokens, and that result is what the request answers with.
C21_DictionaryAllOrNothing ==
    \A t \in Tasks :
        task[t].op = "translate" =>
            LET rq == task[t].req
                tokens == Tokens(rq)
            IN  /\ DictionarySourced(rq) =>
                      /\ Len(tokens) <= 10
                      /\ rq.from \in {"en", "auto"}
                      /\ \A i \in 1 .. Len(tokens) :
                            /\ tokens[i] \in LexiconWords
                            /\ rq.to \in DOMAIN CORE_DICTIONARY[tokens[i]].translations
                      /\ NonEmpty(Split(rq.result.translated))
                            = [i \in 1 .. Len(tokens) |->
                                  CORE_DICTIONARY[tokens[i]].translations[rq.to]]
                      /\ Len(rq.result.words) = Len(tokens)
                /\ (\E i \in 1 .. Len(tokens) : ~Resolves(tokens[i], rq.to))
                      => ~DictionarySourced(rq)
                /\ (AnsweredFresh(t) /\ rq.response.source = "dictionary")
                      => rq.response = rq.result /\ DictionarySourced(rq)

\* "no go" was answered from the dictionary with "no ir", after the text of
\* eleven known tokens had gone to the AI cascade
C21_Witness ==
    /\ AnsweredFresh(1)
    /\ task[1].req.text = <<"n", "o", " ", "g", "o">>
    /\ task[1].req.response.source = "dictionary"
    /\ task[1].req.response.translated = <<"n", "o", " ", "i", "r">>
    /\ \E k \in DOMAIN cache :
          /\ cache[k].value.original = TokensText(LongTextTokens)
          /\ cache[k].value.from_language = "en"
          /\ cache[k].value.source = "api"

\* what translateWithCF handed back, read off the log of its AI.run calls
CascadeOutput(rq) ==
    LET last == rq.ai[Len(rq.ai)]
    IN  IF last.outcome # "text" THEN rq.text
        ELSE IF last.model = "m2m" THEN M2mText ELSE Trim(LlmReply)

\* C22: a translate request that is answered neither from the cache nor with
\* a whole-text dictionary result has called translateWithCF exactly once, with
\* the full normalized text, and the translated text of its answer is what
\* that call handed back, not a composition of the per-token results; a request
\* that ends at the cache or at the dictionary stage has not called it.
C22_CascadeOnceOnFullText ==
    \A t \in Tasks :
        task[t].op = "translate" =>
            LET rq == task[t].req
            IN  /\ rq.branch \in {"unknown", "known"} => rq.cf = <<rq.text>>
                /\ rq.branch \notin {"unknown", "known"} => rq.cf = <<>> /\ rq.ai = <<>>
                /\ (AnsweredFresh(t) /\ ~DictionarySourced(rq))
                      => /\ rq.branch \in {"unknown", "known"}
                         /\ rq.ai # <<>>
                         /\ rq.response.source = "api"
                         /\ rq.response.translated = CascadeOutput(rq)

\* "go zz" went to the cascade as a whole: the answer is m2m100's text, while
\* the per-token list holds the dictionary's "ir" for "go"
C22_Witness ==
    /\ AnsweredFresh(1)
    /\ task[1].req.text = <<"g", "o", " ", "z", "z">>
    /\ task[1].req.branch = "unknown"
    /\ task[1].req.cf = <<task[1].req.text>>
    /\ task[1].req.response.translated = M2mText
    /\ task[1].req.response.words[1].translated = <<"i", "r">>

\* C23: a translate request that is answered with a result it built itself has
\* written that result under its cache key with the configured TTL as its last
\* cache operation, whichever path built the result and whether or not bypass
\* was requested; entries are never removed, and a request without bypass
\* whose key has an entry reads the cache and, the read succeeding, is a hit.
C23_ResultCachedOnEveryPath ==
    /\ [](\A t \in Tasks :
            AnsweredFresh(t) =>
                LET rq == task[t].req
                IN  /\ rq.branch \in {"dictionary", "unknown", "known"}
                    /\ rq.cacheOps # <<>>
                    /\ rq.cacheOps[Len(rq.cacheOps)].op = "put"
                    /\ rq.cacheKey \in DOMAIN cache
                    /\ cache[rq.cacheKey].value = rq.response
                    /\ cache[rq.cacheKey].ttl = 86400)
    /\ [][DOMAIN cache \subseteq DOMAIN cache']_vars
    /\ [][\A t \in Tasks :
            (/\ task[t].op = "idle" /\ task'[t].op = "translate"
             /\ task'[t].req.status # 400 /\ ~task'[t].req.bypass)
            => task'[t].pc = "cache_get"]_vars
    /\ [][\A t \in Tasks :
            (/\ task[t].op = "translate" /\ task[t].pc = "cache_get"
             /\ task[t].req.cacheKey \in DOMAIN cache
             /\ task'[t] # task[t] /\ task'[t].req.status # 500)
            => GotHit(task'[t].req)]_vars

\* a request with bypass whose tokens all resolve but whose source language is
\* 'fr' was answered by the cascade, and the cache holds its answer
C23_Witness ==
    /\ AnsweredFresh(1)
    /\ task[1].req.bypass /\ task[1].req.branch = "known"
    /\ task[1].req.from = "fr"
    /\ cache[task[1].req.cacheKey].value = task[1].req.response
    /\ cache[task[1].req.cacheKey].value.source = "api"

\* the ledger holds a record for the word
LedgerHolds(word) ==
    \E k \in DOMAIN kv.words : k = Normalize(word) /\ kv.words[k] # NoRec

\* C24: after a translate request that fell through to the AI cascade with
\* unresolved tokens has been answered, the ledger holds a record for each of
\* those tokens.
C24_UnknownTokensReported ==
    \A t \in Tasks :
        (AnsweredFresh(t) /\ task[t].req.branch = "unknown")
        => \A i \in 1 .. Len(task[t].req.words) :
              ~Resolves(task[t].req.words[i], task[t].req.to)
              => LedgerHolds(task[t].req.words[i])

\* the request's last AI.run threw and nothing has happened since
EndedAtThrow(rq) ==
    /\ rq.ai # <<>> /\ rq.ai[Len(rq.ai)].outcome = "throws"
    /\ ~CacheWritten(rq)

\* C30: in translate a model whose call throws is passed over: the cascade
\* goes on to its next model or to its terminal result, so no request is
\* answered with status 500 because an AI call threw.
C30_CascadeFailureIsNoError ==
    \A t \in Tasks :
        (task[t].op = "translate" /\ EndedAtThrow(task[t].req))
        => /\ task[t].req.status # 500
           /\ task[t].pc \in {"llm_fast", "llm_primary", "cache_put"}

\* every one of the words has an entry whose translation map has the language key
AllHaveKey(words, to) ==
    \A i \in 1 .. Len(words) :
        /\ words[i] \in LexiconWords
        /\ to \in DOMAIN CORE_DICTIONARY[words[i]].translations

\* C25: wherever translate or translateBatch resolves a text against the
\* dictionary, the text is taken from the dictionary exactly when the entry of
\* every token has the target language as a key of its translation map, also
\* when a translation equals its token, and also for a batch item of one word.
C25_KeyPresenceResolves ==
    /\ \A t \in Tasks :
          (/\ task[t].op = "translate" /\ task[t].req.branch # ""
           /\ task[t].req.from \in {"en", "auto"} /\ Len(task[t].req.words) <= 10)
          => (task[t].req.branch = "dictionary"
                <=> AllHaveKey(task[t].req.words, task[t].req.to))
    /\ \A u \in Tasks :
          (task[u].op = "batch_item" /\ task[u].req.branch # "")
          => (task[u].req.branch = "dictionary"
                <=> AllHaveKey(task[u].req.words, task[u].req.to))

\* the order of the tiers of getFullEtymology
TierOrder == <<"dictionary", "cache", "wiktionary", "ai">>

IsPrefix(a, b) == Len(a) <= Len(b) /\ a = SubSeq(b, 1, Len(a))

EtymologyDone(t) == task[t].op = "etymology" /\ task[t].pc = "done"

\* the result is step 5's minimal one
IsTerminal(result) ==
    /\ result.source = "dictionary" /\ ~result.cached
    /\ result.etymology = [origin |-> "Unknown"]

Hello == <<"h", "e", "l", "l", "o">>

C28_FoundEtymologyCached ==
    /\ [](\A t \in Tasks :
            (/\ EtymologyDone(t) /\ ~task[t].req.response.cached
             /\ task[t].req.response.source \in {"wiktionary", "api"})
            => LET rq == task[t].req
                   last == rq.cacheOps[Len(rq.cacheOps)]
               IN  /\ last.op \in {"put", "put_failed"}
                   /\ last.op = "put" => /\ rq.cacheKey \in DOMAIN cache
                                         /\ cache[rq.cacheKey].value = rq.response
                                         /\ cache[rq.cacheKey].ttl = 604800
                   /\ rq.response.source = "api" => last.op = "put")
    /\ [](\A k \in DOMAIN cache :
            k[1] = "etym" =>
                /\ cache[k].value.source \in {"wiktionary", "api"}
                /\ k = <<"etym", cache[k].value.language, cache[k].value.word>>
                /\ ~HasEtymology(cache[k].value.word)
                /\ cache[k].ttl = 604800)
    /\ [][DOMAIN cache \subseteq DOMAIN cache']_vars
    /\ [][\A t \in Tasks :
            (/\ task[t].op = "etymology" /\ task[t].pc = "ety_cache_get"
             /\ task[t].req.cacheKey \in DOMAIN cache
             /\ task'[t] # task[t] /\ task'[t].req.cacheOps[1].op = "get")
            => /\ task'[t].pc = "done" /\ task'[t].req.status = 200
               /\ task'[t].req.response = [cache[task[t].req.cacheKey].value
                                             EXCEPT !.cached = TRUE]
               /\ task'[t].req.ai = <<>>
               /\ cache' = cache]_vars

\* a lookup was answered from the cache with an etymology Wiktionary had given
\* to an earlier lookup
C28_Witness ==
    /\ EtymologyDone(1)
    /\ task[1].req.response.cached /\ task[1].req.response.source = "wiktionary"
    /\ task[1].req.response.etymology = [origin |-> "Latin"]
    /\ task[1].req.tiers = <<"dictionary", "cache">> /\ task[1].req.ai = <<>>

\* no tier gave the lookup an etymology
NothingYielded(rq) ==
    /\ ~HasEtymology(rq.text)
    /\ ~GotHit(rq)
    /\ \A i \in 1 .. Len(rq.ai) :
          rq.ai[i].outcome \notin EtymologyTexts \cup {"json"}

\* C29: getFullEtymology raises no exception, whatever fails: every lookup that
\* has ended has returned a result for its word and language (the request is
\* answered 200), also after a failed cache read, a failed cache write, a
\* failed fetch and failed AI calls; and a lookup that no tier gave an
\* etymology returns the minimal result {origin: 'Unknown'} with cached=false.
C29_NeverRaises ==
    \A t \in Tasks :
        task[t].op = "etymology" =>
            LET rq == task[t].req
            IN  /\ task[t].pc \in {"ety_cache_get", "ety_fetch", "ety_ai_fast",
                                   "ety_ai_primary", "ety_cache_put", "done"}
                /\ task[t].pc = "done" =>
                      /\ rq.status = 200
                      /\ DOMAIN rq.response
                            = {"word", "language", "etymology", "source", "cached"}
                      /\ rq.response.word = rq.text /\ rq.response.language = rq.from
                      /\ NothingYielded(rq) =>
                            rq.response = [word |-> rq.text, language |-> rq.from,
                                           etymology |-> [origin |-> "Unknown"],
                                           source |-> "dictionary", cached |-> FALSE]

\* the cache read threw, Wiktionary answered 503, the fast model threw and the
\* primary model gave text that is not JSON: the lookup returned the minimal result
C29_Witness ==
    /\ EtymologyDone(1)
    /\ task[1].req.cacheOps = <<[op |-> "get_failed", hit |-> FALSE]>>
    /\ task[1].req.ai = <<[model |-> "wiktionary", outcome |-> "503"],
                          [model |-> "llm_fast", outcome |-> "throws"],
                          [model |-> "llm_primary", outcome |-> "malformed"]>>
    /\ IsTerminal(task[1].req.response)

\* the request is about to read the cache under a key that has an entry
Addresses(u) ==
    /\ task[u].pc \in {"cache_get", "item_cache_get", "ety_cache_get", "conj_cache_get"}
    /\ task[u].req.cacheKey \in DOMAIN cache

\* C26, as claimed: whatever the operation, a cache read addresses only
\* entries written under the deployed version, so that after a bump of
\* CACHE_VERSION no entry of the previous version is addressed.
C26_BumpInvalidatesAll ==
    \A u \in Tasks :
        Addresses(u) => cache[task[u].req.cacheKey].build = version

\* C26, amended: a bump of CACHE_VERSION deletes no entry and changes none,
\* and after it no translate or translateBatch request addresses an entry
\* written under the previous version, their keys starting with the deployed
\* version; the keys of etymology lookups and of conjugations hold no version,
\* so these operations address the same entries before and after a bump.
C26_BumpInvalidatesTranslations ==
    /\ [](\A u \in Tasks :
            /\ (Addresses(u) /\ task[u].op \in {"translate", "batch_item"})
                  => cache[task[u].req.cacheKey].build = version
            /\ (task[u].op \in {"translate", "batch_item"} /\ task[u].req.cacheKey # <<>>)
                  => task[u].req.cacheKey[1] = version
            /\ task[u].op = "etymology" /\ task[u].req.cacheKey # <<>>
                  => task[u].req.cacheKey = <<"etym", task[u].req.from, task[u].req.text>>
            /\ task[u].op = "conjugate" /\ task[u].req.cacheKey # <<>>
                  => /\ task[u].req.cacheKey[1] = "conj"
                     /\ Len(task[u].req.cacheKey) = 4)
    /\ [][version' # version => cache' = cache]_vars
    /\ [][\A k \in DOMAIN cache :
            k \in DOMAIN cache' /\ (cache'[k] # cache[k] => cache'[k].build = version)]_vars

\* after the bump a translate request reads the cache for a text whose
\* translation is stored under the previous version, and addresses no entry
C26_Witness ==
    /\ version = NextVersion
    /\ task[1].op = "translate" /\ task[1].pc = "cache_get"
    /\ ~Addresses(1)
    /\ \E k \in DOMAIN cache :
          /\ cache[k].build = CACHE_VERSION
          /\ k = [task[1].req.cacheKey EXCEPT ![1] = CACHE_VERSION]

\* the payload of a finished request that failed
FailedTranslate(t) ==
    task[t].op = "translate" /\ task[t].pc = "done" /\ task[t].req.status = 500

FailedEtymology(t) ==
    task[t].op = "etymology" /\ task[t].pc = "done" /\ task[t].req.status = 500

FailedPR(t) == task[t].op = "contrib" /\ task[t].pc = "failed"

\* C31: no failure response carries internal exception detail: the error payload
\* of translate, of the etymology lookup and of createDictionaryPR is the same
\* whichever text the underlying exception or the upstream error response had
\* (the payload the handler builds from any other text equals the one returned,
\* and the result of createDictionaryPR carries no text)
C31_FailurePayloadHidesDetail ==
    \A t \in Tasks :
        /\ FailedTranslate(t) =>
               \A e \in ErrorTexts :
                   TranslateFailed(task[t].req, e).response = task[t].req.response
        /\ FailedEtymology(t) =>
               \A e \in ErrorTexts : EtymologyFailed(e) = task[t].req.response
        /\ FailedPR(t) => task[t].result.detail = NoDetail

\* a normalized word shorter than 2 or longer than 50 characters
OutsideLength(key) == Len(key) < 2 \/ Len(key) > 50

\* the items of a list whose normalized word is of such a length
InvalidItems(n) == {i \in 1 .. n : OutsideLength(Normalize(BulkWordAt(i)))}

\* C32: in bulkUploadWords an item whose normalized word is shorter than 2 or
\* longer than 50 characters is silently skipped: it is counted in skipped, it
\* is not reported in errors[], and no record, no queue entry and no change of
\* the stats results from it (no item task ever runs for it; the queue and
\* pendingCount count valid words only).
C32_InvalidItemsSilentlySkipped ==
    /\ \A k \in WordKeys : OutsideLength(k) => kv.words[k] = NoRec
    /\ \A i \in 1 .. Len(kv.queue) : ~OutsideLength(kv.queue[i])
    /\ GetStats(kv).pendingCount <= Cardinality(BulkValidKeys)
    /\ \A u \in Tasks : task[u].op = "item" => ~OutsideLength(task[u].key)
    /\ \A t \in Tasks :
          task[t].op = "bulk" =>
            /\ \A i \in 1 .. Len(task[t].bulk.errors) :
                  task[t].bulk.errors[i].word # <<>>
                  => ~OutsideLength(Normalize(task[t].bulk.errors[i].word))
            /\ BulkProcessed(t) =>
                  /\ task[t].bulk.skipped >= Cardinality(InvalidItems(task[t].bulk.size))
                  /\ ~task[t].bulk.skipDuplicates =>
                        task[t].bulk.skipped = Cardinality(InvalidItems(task[t].bulk.size))

\* a list of 101 words, among them one of 51 characters, one that is a single
\* letter once trimmed and one of spaces only, has been processed: 98 items
\* were skipped, nothing was reported, the three valid words were added
C32_Witness ==
    /\ BulkProcessed(1) /\ task[1].bulk.size = 101
    /\ Len(LongWord) = 51 /\ 52 \in InvalidItems(101) /\ {3, 4} \subseteq InvalidItems(101)
    /\ task[1].bulk.skipped = 98 /\ task[1].bulk.errors = <<>> /\ task[1].bulk.added = 3
    /\ kv.words[Normalize(LongWord)] = NoRec /\ Len(kv.queue) = 3

\* the AI.run calls of a request, in the order they were made
ModelCalls(rq) == SelectSeq(rq.ai, LAMBDA e : e.model # "wiktionary")

\* the order of the models of a cascade: the translation model where it has a
\* code for the target language, then the fast LLM, then the primary LLM
ModelOrder(t) ==
    IF task[t].op \in {"translate", "batch_item"} /\ task[t].req.to \in M2M100_LANG_CODES
    THEN <<"m2m", "llm_fast", "llm_primary">>
    ELSE <<"llm_fast", "llm_primary">>

\* a model threw, gave no response, or gave text that is not JSON
FailedOutcomes == {"throws", "empty", "malformed"}

\* what the request holds once the model called last gave a well-formed answer
HoldsAnswerOf(t, last) ==
    LET rq == task[t].req
    IN  CASE task[t].op \in {"translate", "batch_item"} ->
                rq.result.translated = (IF last.model = "m2m" THEN M2mText ELSE Trim(LlmReply))
          [] task[t].op = "etymology" ->
                rq.result = EtymologyResult(rq.text, rq.from, AiEtymology, "api")
          [] task[t].op = "conjugate" -> rq.result = ConjugationResponse(rq.text, rq.from)

\* C33: in every AI cascade (translateWithCF/translateWithCFLLM of /translate
\* and of a batch item, callCFAIForJSON, fetchEtymologyFromCFAI) the models are
\* called in a fixed order, each at most once per request; a model is called
\* only if every model before it threw, returned an empty response or returned
\* text that is not JSON; and a well-formed answer is the result, no model
\* being called after it.
C33_CascadeInOrder ==
    \A t \in Tasks :
        task[t].op \in {"translate", "batch_item", "etymology", "conjugate"} =>
            LET made == ModelCalls(task[t].req)
                order == ModelOrder(t)
            IN  /\ Len(made) <= Len(order)
                /\ \A i \in 1 .. Len(made) :
                      /\ made[i].model = order[i]
                      /\ \A j \in 1 .. i - 1 : made[j].outcome \in FailedOutcomes
                      /\ made[i].outcome \in {"text", "json"} =>
                            /\ i = Len(made)
                            /\ task[t].pc \notin {"m2m", "llm_fast", "llm_primary", "ety_ai_fast",
                                                  "ety_ai_primary", "conj_ai_fast",
                                                  "conj_ai_primary"}
                            /\ HoldsAnswerOf(t, made[i])

\* a translation into Spanish: the translation model threw, the fast LLM gave
\* no response, the primary LLM answered, and its answer is what was returned
C33_Witness ==
    /\ task[1].op = "translate" /\ task[1].pc = "done" /\ task[1].req.status = 200
    /\ task[1].req.ai = <<[model |-> "m2m", outcome |-> "throws"],
                          [model |-> "llm_fast", outcome |-> "empty"],
                          [model |-> "llm_primary", outcome |-> "text"]>>
    /\ task[1].req.response.translated = Trim(LlmReply)


\* a '<...>' tag in s: a "<", one character or more that is not ">", a ">"
HasTag(s) ==
    \E i \in 1 .. Len(s), j \in 1 .. Len(s) :
        /\ j > i + 1 /\ s[i] = "<" /\ s[j] = ">"
        /\ \A k \in (i + 1) .. (j - 1) : s[k] # ">"

HasBracket(s) == \E i \in 1 .. Len(s) : s[i] \in {"<", ">"}

\* C34: tag stripping terminates and ends at a fixed point, and the text
\* cleanWikiMarkup returns has no angle bracket.  The loop of removeHtmlTags
\* makes at most one pass more than the text has characters; when it is left
\* the text holds no '<...>' tag and one more replacement leaves it as it is;
\* and the text cleanWikiMarkup returns contains neither "<" nor ">".
C34_StrippingEndsAtFixedPoint ==
    \A t \in Tasks :
        task[t].op \in {"strip", "clean"} =>
            /\ task[t].req.item <= Len(task[t].req.text) + 1
            /\ task[t].pc \in {"clean_finish", "done"} =>
                    /\ ~HasTag(task[t].req.result)
                    /\ ReplaceAll(task[t].req.result, "tag") = task[t].req.result
            /\ task[t].op = "clean" /\ task[t].pc = "done" =>
                    ~HasBracket(task[t].req.response)

\* C34 witness: cleanWikiMarkup returned a text after the loop had removed a
\* tag and had left a bracket for the last step to remove
C34_Witness ==
    \E t \in Tasks :
        /\ task[t].op = "clean" /\ task[t].pc = "done"
        /\ task[t].req.item = 2
        /\ HasBracket(task[t].req.result)
        /\ task[t].req.response # <<>>

\* C35: once markProcessing has completed, isProcessing stays true in the stats
\* until clearPendingQueue completes.  While a contribution has written the flag
\* and no clearPendingQueue has begun, the stored stats have isProcessing true,
\* whatever the concurrent storeLearnedWord and bulkUploadWords calls write.
C35_ProcessingFlagStays ==
    \A t \in Tasks :
        (task[t].op = "contrib" /\ task[t].marked /\ ~cleared)
            => GetStats(kv).isProcessing

\* C36: whenever no ledger operation is in progress, stats.pendingCount equals
\* the number of keys in the Pending Queue.
C36_PendingCountIsQueueLength ==
    (\A t \in Tasks : task[t].op = "idle")
        => GetStats(kv).pendingCount = Len(kv.queue)

\* the storeLearnedWord calls on key that have returned or are under way
StoreCallsOn(key) ==
    Cardinality({t \in Tasks : task[t].op = "store" /\ task[t].key = key})

\* C37: no sighting is lost.  When the only requests that arrived are
\* storeLearnedWord calls on one normalized word and all of them have written
\* the record, its seenCount equals the number of those calls.
C37_NoSightingLost ==
    \A key \in {Normalize(w) : w \in ConcRawWords} :
        (/\ calls = MaxCalls
         /\ StoreCallsOn(key) = MaxCalls
         /\ \A t \in Tasks : task[t].op = "store" => task[t].pc = "done")
            => kv.words[key].seenCount = MaxCalls

\* C38: a translate cache hit returns a result computed for the same request.
\* The response of a /translate request answered from the cache has the
\* request's normalized text as `original` and the request's languages as
\* from_language (or "en" for "auto") and to_language.
C38_CacheHitIsSameRequest ==
    \A t \in Tasks :
        (/\ task[t].op = "translate" /\ task[t].pc = "done"
         /\ task[t].req.status = 200
         /\ task[t].req.cacheOps # <<>>
         /\ task[t].req.cacheOps[Len(task[t].req.cacheOps)].op = "get"
         /\ task[t].req.cacheOps[Len(task[t].req.cacheOps)].hit)
            => /\ task[t].req.response.original = task[t].req.text
               /\ task[t].req.response.to_language = task[t].req.to
               /\ task[t].req.response.from_language
                     \in {task[t].req.from, IF task[t].req.from = "auto" THEN "en" ELSE task[t].req.from}

\* C39: a cache failure never changes the etymology getFullEtymology returns.
\* When the Wiktionary tier or the AI tier produced an etymology and the write
\* of it to the cache failed, the lookup returns that result, with the
\* etymology and the source tag it was built with.
C39_PutFailureKeepsResult ==
    \A t \in Tasks :
        (/\ EtymologyDone(t)
         /\ task[t].req.cacheOps # <<>>
         /\ task[t].req.cacheOps[Len(task[t].req.cacheOps)].op = "put_failed")
            => /\ task[t].req.response.etymology = task[t].req.result.etymology
               /\ task[t].req.response.source = task[t].req.result.source

\* the records the ledger holds
StoredWords == {key \in DOMAIN kv.words : kv.words[key] # NoRec}

\* C40: for an accepted bulk upload, `added` is the number of records that did
\* not exist before the call and exist after it, and added + updated + skipped
\* + the number of errors is the batch size.  Stated for an upload that is the
\* only request made on a ledger that was empty: when it has returned, `added`
\* is the number of records the ledger holds, and the four counts add up to
\* the number of items.
C40_AddedCountsNewRecords ==
    \A t \in Tasks :
        (calls = 1 /\ task[t].op = "bulk" /\ task[t].pc = "done" /\ task[t].bulk.size > 0)
            => /\ task[t].bulk.added = Cardinality(StoredWords)
               /\ task[t].bulk.added + task[t].bulk.updated + task[t].bulk.skipped
                      + Len(task[t].bulk.errors) = task[t].bulk.size

====
